---- MODULE Spec2Model ----
(***************************************************************************)
(* The link-processing pipeline of the video-downloader bot:               *)
(* handlers/message_handlers.py process_link, the animation task           *)
(* utils/telegram_helpers.py _update_loading_message that runs beside it,  *)
(* and utils/file_cleanup.py _cleanup_media_files.                         *)
(*                                                                         *)
(* asyncio is single-threaded and cooperative: the code between two awaits *)
(* is one atomic step.  Each action below is one such segment of           *)
(* process_link: it consumes the outcome of the await the run is suspended *)
(* at (pc names that await), runs the code up to the next await and        *)
(* suspends there.  The animation task takes its own steps in between.     *)
(* The awaited collaborators (Telegram, yt-dlp, gallery-dl, ffmpeg) are    *)
(* the environment: an action draws the outcome of its await with \E.      *)
(* A text is a sequence of string pieces (an f-string's parts), a path is  *)
(* a record of its stem's pieces and its suffix.                           *)
(***************************************************************************)
EXTENDS Integers, Sequences, FiniteSets, TLC

\* ------------------------------------------------------------- bounds
\* The gallery downloader returns at most this many images.
MaxImages == 2

\* ------------------------------------------------------------- config.py
SUPPORTED_IMAGE_EXTENSIONS == {".jpg", ".jpeg", ".png", ".webp"}
SUPPORTED_VIDEO_EXTENSIONS == {".mp4", ".mov", ".avi", ".mkv", ".webm"}
SUPPORTED_AUDIO_EXTENSIONS == {".mp3", ".m4a", ".ogg", ".aac", ".opus", ".wav"}
ALL_SUPPORTED_MEDIA_EXTENSIONS ==
    SUPPORTED_IMAGE_EXTENSIONS \cup SUPPORTED_VIDEO_EXTENSIONS \cup SUPPORTED_AUDIO_EXTENSIONS
GENERATED_VIDEO_PREFIX == "video_gen_"
PROCESSED_VIDEO_SUFFIX == "_processed"
FFMPEG_CONVERT_SLIDESHOW == TRUE
\* TELEGRAM_MAX_SIZE of process_link, in MB (50 * 1000 * 1000 bytes).
TELEGRAM_MAX_SIZE == 50

\* ------------------------------------------------------------- paths
\* A stem is a sequence of tokens: a maximal run of digits (s its digits, v
\* its value), a separator ("_", "-" or " "), or a word without digits that
\* does not end in a separator (v = -1 for both).
W(s) == [s |-> s, v |-> -1]
N(n) == [s |-> ToString(n), v |-> n]
Sep == W("_")
Separators == {W("_"), W("-"), W(" ")}
MkPath(stem, ext) == [stem |-> stem, ext |-> ext]

\* random.randint(10000, 99999): the number in a downloader's unique prefix.
RandomPrefix == 10000

\* The files the gallery downloader can return:
\* f"{unique_prefix}_{original_stem}{suffix}", unique_prefix = media_dl_gdl_<n>.
GdlStem(orig) == <<W("media_dl_gdl"), Sep, N(RandomPrefix), Sep>> \o orig
GdlImage(i) == MkPath(GdlStem(<<N(i)>>), IF i % 2 = 1 THEN ".jpg" ELSE ".png")
GdlAudio == MkPath(GdlStem(<<W("sound")>>), ".mp3")
GdlVideo == MkPath(GdlStem(<<W("clip")>>), ".mp4")
\* The files the primary downloader can return:
\* f"{unique_prefix}_%(id)s.%(ext)s", unique_prefix = media_dl_ytdl_<n>.
YtStem(id) == <<W("media_dl_ytdl"), Sep, N(RandomPrefix), Sep, W(id)>>
YtMerged == MkPath(YtStem("id"), ".mp4")
YtBig    == MkPath(YtStem("big"), ".mp4")
YtAudio  == MkPath(YtStem("id"), ".m4a")
YtWebm   == MkPath(YtStem("id"), ".webm")

\* f.stat().st_size in MB, by file: what the environment's files weigh.
st_size(p) == IF p = YtBig THEN 60 ELSE 10

Range(s) == {s[i] : i \in 1..Len(s)}

RECURSIVE SumSizes(_)
SumSizes(files) ==
    IF files = <<>> THEN 0 ELSE st_size(Head(files)) + SumSizes(Tail(files))

\* [f for f in files if f.suffix.lower() in exts]
RECURSIVE FilterExt(_, _)
FilterExt(files, exts) ==
    IF files = <<>> THEN <<>>
    ELSE IF Head(files).ext \in exts
         THEN <<Head(files)>> \o FilterExt(Tail(files), exts)
         ELSE FilterExt(Tail(files), exts)

\* The suffixes line 186 and downloader.py line 177 treat as video.
VideoLikeExtensions ==
    (ALL_SUPPORTED_MEDIA_EXTENSIONS \ SUPPORTED_IMAGE_EXTENSIONS) \ SUPPORTED_AUDIO_EXTENSIONS

\* ------------------------------------------------- services/media_processing.py
\* extract_filename_index: the digits after a separator at the end of the
\* stem, else the digits at its end, else its first digits, else 99999.
IsDigits(t) == t.v >= 0
NO_INDEX == 99999
extract_filename_index(p) ==
    LET stem == p.stem
        n == Len(stem)
        firstDigits == {i \in 1..n : IsDigits(stem[i])}
    IN  IF n >= 2 /\ IsDigits(stem[n]) /\ stem[n - 1] \in Separators THEN stem[n].v
        ELSE IF n >= 1 /\ IsDigits(stem[n]) THEN stem[n].v
        ELSE IF firstDigits # {}
             THEN stem[CHOOSE i \in firstDigits : \A j \in firstDigits : i <= j].v
             ELSE NO_INDEX

\* sorted(files, key=extract_filename_index): a stable insertion sort.
RECURSIVE InsertByIndex(_, _)
InsertByIndex(sorted, f) ==
    IF sorted = <<>> THEN <<f>>
    ELSE IF extract_filename_index(f) < extract_filename_index(Head(sorted))
         THEN <<f>> \o sorted
         ELSE <<Head(sorted)>> \o InsertByIndex(Tail(sorted), f)

RECURSIVE SortedByIndex(_)
SortedByIndex(files) ==
    IF files = <<>> THEN <<>>
    ELSE InsertByIndex(SortedByIndex(SubSeq(files, 1, Len(files) - 1)), files[Len(files)])

\* ------------------------------------------------- output paths of process_link
\* Lines 153-158: tmp/video_gen_<audio stem>.mp4, then ..._<count>.mp4.
GeneratedCandidate(audio_path, count) ==
    MkPath(<<W("video_gen"), Sep>> \o audio_path.stem
             \o (IF count = 0 THEN <<>> ELSE <<Sep, N(count)>>), ".mp4")
\* Lines 204-209: tmp/<video stem>_processed.mp4, then ..._<count>.mp4.
ProcessedCandidate(video, count) ==
    MkPath(video.stem \o <<Sep, W("processed")>>
             \o (IF count = 0 THEN <<>> ELSE <<Sep, N(count)>>), ".mp4")
\* while path.exists(): next count.  The first count whose candidate is free.
FirstFree(taken) ==
    CHOOSE k \in 0..Cardinality(taken) :
        /\ k \notin taken
        /\ \A j \in 0..(k - 1) : j \in taken
GeneratedPath(audio_path, files) ==
    GeneratedCandidate(audio_path,
        FirstFree({k \in 0..Cardinality(files) : GeneratedCandidate(audio_path, k) \in files}))
ProcessedPath(video, files) ==
    ProcessedCandidate(video,
        FirstFree({k \in 0..Cardinality(files) : ProcessedCandidate(video, k) \in files}))

\* ------------------------------------------------- services/downloader.py
DownloadResult(success, media_files, error_message, is_slideshow) ==
    [success |-> success, media_files |-> media_files,
     error_message |-> error_message, is_slideshow |-> is_slideshow]

\* What download_media_yt_dlp returns: one merged mp4, or the supported files
\* sorted by name, or a failure with its reason (error_message "" is None).
YtDlpFileLists == {<<YtMerged>>, <<YtBig>>, <<YtAudio, YtWebm>>}
YtDlpErrors == {"Download failed (Video/Account is private).",
                "Download failed (Content not found - 404 Error)."}
YtDlpResults ==
    {DownloadResult(TRUE, fs, "", FALSE) : fs \in YtDlpFileLists}
      \cup {DownloadResult(FALSE, <<>>, e, FALSE) : e \in YtDlpErrors}

\* What download_gallery_dl returns: the images in index order, then the
\* videos, then the audio file; success only with a file.
GalleryFileLists ==
    {[i \in 1..k |-> GdlImage(i)] \o v \o a :
        k \in 0..MaxImages, v \in {<<>>, <<GdlVideo>>}, a \in {<<>>, <<GdlAudio>>}}
      \ {<<>>}
GalleryErrors == {"Content is private.",
                  "Slideshow download resulted in no usable media files."}
\* Lines 231-237: an exception after the result was filled in (leaving the
\* scratch directory) sets the reason and deletes the moved files, and the
\* result goes out with success still true.
GALLERY_UNEXPECTED == "An unexpected error occurred during slideshow/gallery download."
GalleryResults ==
    {DownloadResult(TRUE, fs, "", TRUE) : fs \in GalleryFileLists}
      \cup {DownloadResult(TRUE, <<GdlImage(1), GdlAudio>>, GALLERY_UNEXPECTED, TRUE)}
      \cup {DownloadResult(FALSE, <<>>, e, TRUE) : e \in GalleryErrors}
\* The files of a result that exist when the downloader returns.
OnDisk(r) == IF r.error_message = "" THEN Range(r.media_files) ELSE {}

\* ------------------------------------------------- texts
PROCESSING == "Processing link..."
TRYING     == "Trying alternative download..."
CONVERTING == "Converting slideshow to video..."
OPTIMIZING == "Optimizing video for Iphones and Telegram..."
SENDING    == "Sending media..."
UNEXPECTED == "An unexpected error occurred while processing the link for "
PhaseTexts == {TRYING, CONVERTING, OPTIMIZING, SENDING}
\* The cross mark and the warning sign that open a failure text.
CROSS == "(x) "
WARN  == "(!) "
\* f"{base_text} <code>{bar}</code>": what the animation task writes.
BAR == " <code>[bar]</code>"
Animated(base_text) == base_text \o <<BAR>>
valid_url == "https://www.tiktok.com/@u/video/1"
\* A final text that leaves the link out.
StatusUpdateTextWithoutLink(fsm) == fsm
\* f"{final_status_message}\nLink: <a href=...>{url}</a>"
StatusUpdateText(fsm) == fsm \o <<"\nLink: ", valid_url>>

\* ------------------------------------------------- state
VARIABLES
    chat,                  \* the caller: "private" (handle_private_link) or "group"
    pc,                    \* the await process_link is suspended at
    processing_msg,        \* TRUE while processing_msg refers to the status message
    stop_event,            \* asyncio.Event: is_set()
    loading_task,          \* index in tasks of loading_task, 0 for None
    tasks,                 \* every animation task created, in creation order
    download_result,       \* <<>> for None, else <<DownloadResult>>
    all_files_to_cleanup,  \* the tracked paths
    final_status_message,  \* <<>> for None, else the text
    media_sent,
    current_status_text,
    out_path,              \* <<>> or <<video_filename / processed_video_path>>
    audio_duration,        \* <<>> for None, else <<tenths of a second>>
    FFMPEG_AVAILABLE,      \* config.FFMPEG_AVAILABLE
    status,                \* the status message as Telegram holds it
    disk,                  \* the paths that exist in the temporary directory
    produced,              \* every path a stage of the run has written and left
    calls,                 \* the collaborator calls made so far, in order
    propagated,            \* an exception left process_link
    raised,                \* the steps of process_link whose call raised
    failures,              \* the transcode steps the run logged as failed or skipped
    launched,              \* the transcode steps that went on to start ffmpeg or ffprobe
    outcomes,              \* what the run's collaborators have answered, in order
    send_error,            \* what made send_downloaded_media return False
    fetchers               \* the fetch collaborators: "shipped", or "any"

\* utils/telegram_helpers.py send_downloaded_media, one call of it.
VARIABLES
    send_pc,               \* where the call is: its next send, or "returned"
    send_files,            \* media_files
    send_disk,             \* the paths that exist
    base_caption,
    sent_something,
    media_group_caption_used,
    sent_items,            \* what Telegram has received from the call, in order
    send_result            \* <<>> until the call returns, then <<its value>>

\* services/downloader.py: the fetches of the runs in progress, which share
\* the temporary directory.
VARIABLES
    fetch_pc,              \* by run: where its fetch is
    fetch_host,            \* by run: the host of its URL
    fetch_prefix,          \* by run: unique_prefix's random number, 0 before the draw
    fetch_result,          \* by run: <<>> or <<the DownloadResult returned>>
    fetch_signal,          \* by run: download_media_yt_dlp raised NonVideoContentError
    fetch_error,           \* by run: err_lower of the DownloadError its yt-dlp call caught
    tmp_files              \* the paths that exist in tempfile.gettempdir()

VARIABLES
    stats_data,            \* _stats_data: its "users" and its "totals"
    last_save_time,        \* _last_save_time
    stats_file,            \* <<>> while STATS_FILE does not exist, else <<its content>>
    clock,                 \* time.time(), in seconds since load_stats
    save_tasks,            \* the save_stats() tasks created and not yet run
    increments,            \* by user_id: the increment_user_count calls that returned
    totals_read            \* <<>>, or <<what the last get_totals returned>>

VARIABLES
    reddit_pc,                  \* the await reddit_command is suspended at
    media_type,                 \* post_result.type
    original_temp_media_path,   \* <<>> for None, else <<the path>>
    processed_temp_media_path,  \* <<>> for None, else <<the path>>
    path_to_send,               \* <<>> for None, else <<the path>>
    download_success,
    reddit_edit,                \* the edit_text awaited: its text and what follows it
    reddit_status,              \* the texts the status message has shown, in order
    reddit_calls,               \* the transcode, upload and cleanup calls, in order
    reddit_disk                 \* the paths that exist in tempfile.gettempdir()

handler_locals ==
    <<chat, pc, processing_msg, stop_event, loading_task, tasks, download_result,
      all_files_to_cleanup, final_status_message, media_sent, current_status_text,
      out_path, audio_duration, status, disk, produced, calls,
      propagated, raised, failures, launched, outcomes, send_error, fetchers>>
handler_vars == <<handler_locals, FFMPEG_AVAILABLE>>
send_vars ==
    <<send_pc, send_files, send_disk, base_caption, sent_something,
      media_group_caption_used, sent_items, send_result>>
fetch_vars ==
    <<fetch_pc, fetch_host, fetch_prefix, fetch_result, fetch_signal, fetch_error,
      tmp_files>>
reddit_vars ==
    <<reddit_pc, media_type, original_temp_media_path, processed_temp_media_path,
      path_to_send, download_success, reddit_edit, reddit_status, reddit_calls,
      reddit_disk>>
stats_vars ==
    <<stats_data, last_save_time, stats_file, clock, save_tasks, increments, totals_read>>
vars == <<handler_vars, send_vars, fetch_vars, stats_vars, reddit_vars>>

\* Lines 84 and 115: what a fetch collaborator can answer beyond the answers
\* of the shipped downloaders.  process_link tests success and media_files
\* separately (lines 85, 88, 180); a substitute that keeps to the DownloadResult
\* type only can report success without a file, or a failure without a reason.
SubstituteResults(is_slideshow) ==
    IF fetchers = "any"
    THEN {DownloadResult(TRUE, <<>>, "", is_slideshow),
          DownloadResult(FALSE, <<>>, "", is_slideshow)}
    ELSE {}

\* handle_group_message passes user_mention and no reply_to_message,
\* handle_private_link passes reply_to_message and no user_mention.
user_mention == IF chat = "group" THEN <<"<b>User</b>">> ELSE <<>>
\* A caller that never hands over the message it answers.
ReplyToMessageNever == FALSE
reply_to_message == chat = "private"
user_ref == IF user_mention # <<>> THEN user_mention ELSE <<"user">>
base_processing_text ==
    IF user_mention # <<>> THEN <<"Processing link from ">> \o user_mention
    ELSE <<PROCESSING>>

Call(op, files, text) == [op |-> op, files |-> files, text |-> text]
Calls(op) == {i \in 1..Len(calls) : calls[i].op = op}

\* No call of send_downloaded_media is under way.
NoSend ==
    /\ send_pc = "idle"
    /\ send_files = <<>>
    /\ send_disk = {}
    /\ base_caption = <<>>
    /\ sent_something = FALSE
    /\ media_group_caption_used = FALSE
    /\ sent_items = <<>>
    /\ send_result = <<>>

\* No other run is fetching.
NoFetch ==
    /\ fetch_pc = <<>>
    /\ fetch_host = <<>>
    /\ fetch_prefix = <<>>
    /\ fetch_result = <<>>
    /\ fetch_signal = <<>>
    /\ fetch_error = <<>>
    /\ tmp_files = {}

\* The usage statistics are left as load_stats made them.
NoStats ==
    /\ stats_data = [users |-> <<>>, totals |-> <<>>]
    /\ last_save_time = 0
    /\ stats_file = <<>>
    /\ clock = 0
    /\ save_tasks = 0
    /\ increments = <<>>
    /\ totals_read = <<>>

\* No call of reddit_command is followed.
NoReddit ==
    /\ reddit_pc = "idle"
    /\ media_type = ""
    /\ original_temp_media_path = <<>>
    /\ processed_temp_media_path = <<>>
    /\ path_to_send = <<>>
    /\ download_success = FALSE
    /\ reddit_edit = <<>>
    /\ reddit_status = <<>>
    /\ reddit_calls = <<>>
    /\ reddit_disk = {}

\* No run of process_link is followed step by step.
NoProcessLink ==
    /\ chat = "private"
    /\ pc = "idle"
    /\ processing_msg = FALSE
    /\ stop_event = FALSE
    /\ loading_task = 0
    /\ tasks = <<>>
    /\ download_result = <<>>
    /\ all_files_to_cleanup = <<>>
    /\ final_status_message = <<>>
    /\ media_sent = FALSE
    /\ current_status_text = <<>>
    /\ out_path = <<>>
    /\ audio_duration = <<>>
    /\ status = [exists |-> FALSE, text |-> <<>>]
    /\ disk = {}
    /\ produced = {}
    /\ calls = <<>>
    /\ propagated = FALSE
    /\ raised = {}
    /\ failures = {}
    /\ launched = {}
    /\ outcomes = <<>>
    /\ send_error = ""
    /\ fetchers = "shipped"
NoHandler == NoProcessLink /\ FFMPEG_AVAILABLE = FALSE

\* An entry of outcomes: the step, and what it answered.
Answer(step, outcome) == [step |-> step, outcome |-> outcome]

\* process_link is called: lines 52-63.
Started ==
    /\ chat \in {"private", "group"}
    /\ pc = "send_initial"
    /\ processing_msg = FALSE
    /\ stop_event = FALSE
    /\ loading_task = 0
    /\ tasks = <<>>
    /\ download_result = <<>>
    /\ all_files_to_cleanup = <<>>
    /\ final_status_message = <<>>
    /\ media_sent = FALSE
    /\ current_status_text = base_processing_text
    /\ out_path = <<>>
    /\ audio_duration = <<>>
    /\ FFMPEG_AVAILABLE \in BOOLEAN
    /\ status = [exists |-> FALSE, text |-> <<>>]
    /\ disk = {}
    /\ produced = {}
    /\ calls = <<>>
    /\ propagated = FALSE
    /\ raised = {}
    /\ failures = {}
    /\ launched = {}
    /\ outcomes = <<Answer("config", FFMPEG_AVAILABLE)>>
    /\ send_error = ""

Init == Started /\ fetchers = "shipped" /\ NoSend /\ NoFetch /\ NoStats /\ NoReddit
\* process_link with fetch collaborators that keep to the DownloadResult type.
InitAnyFetcher == Started /\ fetchers = "any" /\ NoSend /\ NoFetch /\ NoStats /\ NoReddit

\* ------------------------------------------------- _update_loading_message
\* A task is at "start" (created, not run yet), "editing" (awaiting
\* msg_to_edit.edit_text), "waiting" (awaiting wait_for(stop_event.wait(), 10)),
\* or "done": Task.done() holds, whether it returned or was cancelled.  cancel
\* is a pending Task.cancel(): CancelledError is thrown into the task when it
\* next runs.
NewTask(base_text) == [at |-> "start", base_text |-> base_text, cancel |-> FALSE]
TaskDone(t) == t.at = "done"
Unfinished == {i \in 1..Len(tasks) : ~TaskDone(tasks[i])}
\* loading_task and not loading_task.done()
LoadingTaskRunning == loading_task # 0 /\ ~TaskDone(tasks[loading_task])

\* while not stop_event.is_set(): ... the loop test, at the task's first run and
\* when the timed wait ends: leave when the event is set, else start the edit
\* (msg_to_edit.text is the text the message was created with, which never
\* carries the bar, so the comparison of line 327 always lets the edit go).
AnimLoop(i) ==
    /\ tasks[i].at \in {"start", "waiting"}
    /\ ~tasks[i].cancel
    /\ tasks' = [tasks EXCEPT ![i].at = IF stop_event THEN "done" ELSE "editing"]
    /\ UNCHANGED <<chat, fetchers, outcomes, send_vars, fetch_vars, stats_vars, reddit_vars, failures, launched, send_error,
                   pc, processing_msg, stop_event, loading_task,
                   download_result, all_files_to_cleanup, final_status_message,
                   media_sent, current_status_text, out_path, audio_duration,
                   FFMPEG_AVAILABLE, status, disk, produced, calls, propagated,
                   raised>>

\* edit_text returns and the bar is written, or it raises and the loop is left
\* (lines 334-355; "message is not modified" does not come up, as every edit
\* carries another bar than the text before it).
AnimEditReturn(i) ==
    /\ tasks[i].at = "editing"
    /\ ~tasks[i].cancel
    /\ \E outcome \in {"ok", "error"} :
        /\ outcome = "ok" => status.exists
        /\ status' = IF outcome = "ok"
                     THEN [status EXCEPT !.text = Animated(tasks[i].base_text)]
                     ELSE status
        /\ tasks' = [tasks EXCEPT ![i].at = IF outcome = "error" THEN "done" ELSE "waiting"]
    /\ UNCHANGED <<chat, fetchers, outcomes, send_vars, fetch_vars, stats_vars, reddit_vars, failures, launched, send_error,
                   pc, processing_msg, stop_event, loading_task,
                   download_result, all_files_to_cleanup, final_status_message,
                   media_sent, current_status_text, out_path, audio_duration,
                   FFMPEG_AVAILABLE, disk, produced, calls, propagated, raised>>

\* CancelledError reaches the task: inside edit_text it ends the task (except
\* Exception does not catch it) and the edit is not made, inside the timed wait
\* it is caught (line 368) and the task returns; a task that never ran ends
\* without running.
AnimCancelled(i) ==
    /\ ~TaskDone(tasks[i])
    /\ tasks[i].cancel
    /\ tasks' = [tasks EXCEPT ![i].at = "done", ![i].cancel = FALSE]
    /\ UNCHANGED <<chat, fetchers, outcomes, send_vars, fetch_vars, stats_vars, reddit_vars, failures, launched, send_error,
                   pc, processing_msg, stop_event, loading_task,
                   download_result, all_files_to_cleanup, final_status_message,
                   media_sent, current_status_text, out_path, audio_duration,
                   FFMPEG_AVAILABLE, status, disk, produced, calls, propagated,
                   raised>>

\* ------------------------------------------------- process_link: its pieces
\* The run suspends at an await, with what the segment just run has set.
Suspend(at, log, fsm, cst, se, ts) ==
    /\ pc' = at
    /\ calls' = log
    /\ final_status_message' = fsm
    /\ current_status_text' = cst
    /\ stop_event' = se
    /\ tasks' = ts

\* list(set(all_files_to_cleanup)): each path once (a set's order is of no
\* consequence to _cleanup_media_files; the first occurrences' order is kept).
RECURSIVE UniqueFiles(_)
UniqueFiles(files) ==
    IF files = <<>> THEN <<>>
    ELSE LET front == SubSeq(files, 1, Len(files) - 1)
             last == files[Len(files)]
         IN  IF last \in Range(front) THEN UniqueFiles(front)
             ELSE Append(UniqueFiles(front), last)

\* A run that calls the cleanup only when it has no failure text.
FinishWithoutCleanupOnFailure(log, fsm, tracked, se, ts) ==
    Suspend("cleanup",
            IF fsm # <<>> THEN log
            ELSE Append(log, Call("_cleanup_media_files", UniqueFiles(tracked), <<>>)),
            fsm, current_status_text, se, ts)

\* Lines 346-347: the last await of the run.
Finish(log, fsm, tracked, se, ts) ==
    Suspend("cleanup", Append(log, Call("_cleanup_media_files", UniqueFiles(tracked), <<>>)),
            fsm, current_status_text, se, ts)

\* A finally block that never edits the status message.
FinalStatusWithoutEdit(fsm, sent, pmsg, tracked, log, se, ts) ==
    IF fsm # <<>> /\ ~sent /\ ~pmsg
    THEN Suspend("final_send", Append(log, Call("send_message", <<>>, StatusUpdateText(fsm))),
                 fsm, current_status_text, se, ts)
    ELSE Finish(log, fsm, tracked, se, ts)

\* A finally block that reports a failure on the status message only.
FinalStatusOnlyByEdit(fsm, sent, pmsg, tracked, log, se, ts) ==
    IF fsm # <<>> /\ ~sent /\ pmsg
    THEN Suspend("final_edit", Append(log, Call("edit_final", <<>>, StatusUpdateText(fsm))),
                 fsm, current_status_text, se, ts)
    ELSE Finish(log, fsm, tracked, se, ts)

\* Lines 315-344 up to their first await: the failure text goes to the status
\* message, or to a new message when processing_msg is None.
FinalStatus(fsm, sent, pmsg, tracked, log, se, ts) ==
    IF fsm # <<>> /\ ~sent
    THEN IF pmsg
         THEN Suspend("final_edit", Append(log, Call("edit_final", <<>>, StatusUpdateText(fsm))),
                      fsm, current_status_text, se, ts)
         ELSE Suspend("final_send", Append(log, Call("send_message", <<>>, StatusUpdateText(fsm))),
                      fsm, current_status_text, se, ts)
    ELSE Finish(log, fsm, tracked, se, ts)

\* A finally block that leaves the animation task alone.
EnterFinallyWithoutStop(fsm, sent, pmsg, tracked, log, se) ==
    FinalStatus(fsm, sent, pmsg, tracked, log, se, tasks)

\* Lines 300-313: the finally block up to its first await.  A running task
\* gets the stop signal and Task.cancel(), and is awaited (wait_for, 1.0).
EnterFinally(fsm, sent, pmsg, tracked, log, se) ==
    IF LoadingTaskRunning
    THEN Suspend("finally_wait", log, fsm, current_status_text, TRUE,
                 [tasks EXCEPT ![loading_task].cancel = TRUE])
    ELSE FinalStatus(fsm, sent, pmsg, tracked, log, se, tasks)

\* A try block without its except clause: the finally block runs and the
\* exception leaves process_link.
OnExceptionPropagated(step, sent, pmsg, tracked, log) ==
    /\ EnterFinally(final_status_message, sent, pmsg, tracked, log, stop_event)
    /\ propagated' = TRUE
    /\ raised' = raised \cup {step}

\* Lines 293-298: except Exception.  The generic text replaces any reason, the
\* stop signal is given, and the finally block runs.
UnexpectedError == <<WARN, UNEXPECTED>> \o user_ref \o <<".">>
OnException(step, sent, pmsg, tracked, log) ==
    /\ EnterFinally(UnexpectedError, sent, pmsg, tracked, log,
                    IF LoadingTaskRunning THEN TRUE ELSE stop_event)
    /\ propagated' = FALSE
    /\ raised' = raised \cup {step}

\* An orchestrator that takes the ambiguous-content signal for a failure.
BeginSwitchUnlessTrying(phase, log, fsm) ==
    IF phase = <<TRYING>>
    THEN EnterFinally(<<CROSS, "Download failed (not a video).">>, FALSE, processing_msg,
                      all_files_to_cleanup, log, stop_event)
    ELSE IF LoadingTaskRunning
    THEN Suspend("switch_wait", log, fsm, phase, TRUE, tasks)
    ELSE Suspend("switch_edit", Append(log, Call("edit_text", <<>>, phase)),
                 fsm, phase, FALSE, tasks)

\* An orchestrator that gives up when its animation task has ended by itself.
BeginSwitchNeedingTask(phase, log, fsm) ==
    IF LoadingTaskRunning
    THEN Suspend("switch_wait", log, fsm, phase, TRUE, tasks)
    ELSE EnterFinally(<<CROSS, "Status display failed.">>, FALSE, processing_msg,
                      all_files_to_cleanup, log, stop_event)

\* Lines 98-106 (and 136-143, 192-199, 228-237) up to their first await: a
\* running task gets the stop signal and is awaited (wait_for, 0.5); else the
\* event is cleared and the new phase's text goes to the status message.
BeginSwitch(phase, log, fsm) ==
    IF LoadingTaskRunning
    THEN Suspend("switch_wait", log, fsm, phase, TRUE, tasks)
    ELSE Suspend("switch_edit", Append(log, Call("edit_text", <<>>, phase)),
                 fsm, phase, FALSE, tasks)

\* A wait that gives up on the task without cancelling it.
WaitForReturnsAtOnce(i) == TRUE

\* wait_for(loading_task, timeout) is over: the task has finished, by itself or
\* cancelled by the timeout (wait_for awaits the cancellation).
WaitForReturns(i) == TaskDone(tasks[i])

\* Lines 180-291, entered with the fetch's (and the composer's) result: a
\* successful result with files goes to the optimizer or to sending, anything
\* else ends the try block with a failure text.
VideoToProcess(files) == FilterExt(files, VideoLikeExtensions)
\* A delivery branch that takes a successful result without looking at its
\* file list.
DeliverWithoutFiles(dr, fsm, tracked, ffmpeg, log) ==
    IF fsm = <<>> /\ dr # <<>> /\ dr[1].success
    THEN IF ffmpeg /\ VideoToProcess(dr[1].media_files) # <<>>
         THEN BeginSwitch(<<OPTIMIZING>>, log, fsm)
         ELSE BeginSwitch(<<SENDING>>, log, fsm)
    ELSE IF fsm = <<>> /\ dr # <<>> /\ ~dr[1].success
    THEN EnterFinally(<<CROSS, "Download failed for ">> \o user_ref \o <<" (unknown reason).">>,
                      FALSE, processing_msg, tracked, log, stop_event)
    ELSE IF fsm = <<>> /\ dr = <<>>
    THEN EnterFinally(<<CROSS, "Download failed for ">> \o user_ref \o <<" (internal error).">>,
                      FALSE, processing_msg, tracked, log, stop_event)
    ELSE EnterFinally(fsm, FALSE, processing_msg, tracked, log, stop_event)
\* A delivery branch that sends a video to the optimizer whatever the flag.
DeliverOptimizingAnyway(dr, fsm, tracked, ffmpeg, log) ==
    IF fsm = <<>> /\ dr # <<>> /\ dr[1].success /\ dr[1].media_files # <<>>
    THEN IF VideoToProcess(dr[1].media_files) # <<>>
         THEN BeginSwitch(<<OPTIMIZING>>, log, fsm)
         ELSE BeginSwitch(<<SENDING>>, log, fsm)
    ELSE IF fsm = <<>> /\ dr # <<>> /\ ~dr[1].success
    THEN EnterFinally(<<CROSS, "Download failed for ">> \o user_ref \o <<" (unknown reason).">>,
                      FALSE, processing_msg, tracked, log, stop_event)
    ELSE IF fsm = <<>> /\ dr = <<>>
    THEN EnterFinally(<<CROSS, "Download failed for ">> \o user_ref \o <<" (internal error).">>,
                      FALSE, processing_msg, tracked, log, stop_event)
    ELSE EnterFinally(fsm, FALSE, processing_msg, tracked, log, stop_event)
Deliver(dr, fsm, tracked, ffmpeg, log) ==
    IF fsm = <<>> /\ dr # <<>> /\ dr[1].success /\ dr[1].media_files # <<>>
    THEN IF ffmpeg /\ VideoToProcess(dr[1].media_files) # <<>>
         THEN BeginSwitch(<<OPTIMIZING>>, log, fsm)
         ELSE BeginSwitch(<<SENDING>>, log, fsm)
    ELSE IF fsm = <<>> /\ dr # <<>> /\ ~dr[1].success
    THEN EnterFinally(<<CROSS, "Download failed for ">> \o user_ref \o <<" (unknown reason).">>,
                      FALSE, processing_msg, tracked, log, stop_event)
    ELSE IF fsm = <<>> /\ dr = <<>>
    THEN EnterFinally(<<CROSS, "Download failed for ">> \o user_ref \o <<" (internal error).">>,
                      FALSE, processing_msg, tracked, log, stop_event)
    ELSE EnterFinally(fsm, FALSE, processing_msg, tracked, log, stop_event)

\* Lines 245-251: the caption.  html.escape replaces the markup characters.
HtmlEscape(text) ==
    [i \in 1..Len(text) |->
        CASE text[i] = "<" -> "&lt;"
          [] text[i] = ">" -> "&gt;"
          [] text[i] = "&" -> "&amp;"
          [] OTHER -> text[i]]
\* The text after the link in a group message; None in a private chat.
extra_text == IF chat = "group" THEN <<"look ", "<", "3">> ELSE <<>>
FinalCaption ==
    LET by == IF user_mention # <<>> THEN <<"Sent by ">> \o user_mention ELSE <<>>
    IN  IF extra_text = <<>> THEN by
        ELSE IF by # <<>> THEN by \o <<"\n\n">> \o HtmlEscape(extra_text)
        ELSE HtmlEscape(extra_text)

\* A failure text that does not look at the files' size.
PostSendWithoutSizeCheck(sent, files, tracked, log) ==
    IF sent
    THEN /\ IF processing_msg
            THEN Suspend("delete", Append(log, Call("delete", <<>>, <<>>)),
                         final_status_message, current_status_text, stop_event, tasks)
            ELSE EnterFinally(final_status_message, sent, processing_msg, tracked, log,
                              stop_event)
         /\ UNCHANGED <<propagated, raised>>
    ELSE /\ EnterFinally(<<WARN, "Downloaded successfully, but failed to send media for ">>
                           \o user_ref \o <<".">>,
                         sent, processing_msg, tracked, log, stop_event)
         /\ UNCHANGED <<propagated, raised>>

\* Lines 270-283 up to their first await, after the delivery attempt and the
\* stop of the animation: delete the status message, or choose the failure
\* text by the files' total size (stat raises for a file that is gone).
TooLarge == <<CROSS, "Failed to send media for ">> \o user_ref \o <<" (file too large).">>
NotSent == <<WARN, "Downloaded successfully, but failed to send media for ">> \o user_ref \o <<".">>
\* A step that deletes the status message whatever the delivery returned.
PostSendDeletingAnyway(sent, files, tracked, log) ==
    /\ IF processing_msg
       THEN Suspend("delete", Append(log, Call("delete", <<>>, <<>>)),
                    final_status_message, current_status_text, stop_event, tasks)
       ELSE EnterFinally(final_status_message, sent, processing_msg, tracked, log,
                         stop_event)
    /\ UNCHANGED <<propagated, raised>>
PostSend(sent, files, tracked, log) ==
    IF sent
    THEN /\ IF processing_msg
            THEN Suspend("delete", Append(log, Call("delete", <<>>, <<>>)),
                         final_status_message, current_status_text, stop_event, tasks)
            ELSE EnterFinally(final_status_message, sent, processing_msg, tracked, log,
                              stop_event)
         /\ UNCHANGED <<propagated, raised>>
    ELSE IF \E f \in Range(files) : f \notin disk
    THEN OnException("stat", sent, processing_msg, tracked, log)
    ELSE /\ EnterFinally(IF SumSizes(files) > TELEGRAM_MAX_SIZE THEN TooLarge ELSE NotSent,
                         sent, processing_msg, tracked, log, stop_event)
         /\ UNCHANGED <<propagated, raised>>

\* ------------------------------------------------- process_link: its steps
\* Line 70: send_message returns the status message, or None, or raises.
\* Lines 72-84: start the animation task and call the primary downloader.
InitialSendReturn ==
    /\ pc = "send_initial"
    /\ \E outcome \in {"message", "none", "raise"} :
        /\ outcomes' = Append(outcomes, Answer(pc, outcome))
        /\ CASE outcome = "message" ->
               /\ processing_msg' = TRUE
               /\ status' = [exists |-> TRUE, text |-> base_processing_text]
               /\ loading_task' = Len(tasks) + 1
               /\ Suspend("yt_dlp", Append(calls, Call("download_media_yt_dlp", <<>>, <<>>)),
                          final_status_message, current_status_text, stop_event,
                          Append(tasks, NewTask(current_status_text)))
               /\ UNCHANGED <<propagated, raised>>
          [] outcome = "none" ->
               /\ EnterFinally(final_status_message, media_sent, FALSE,
                               all_files_to_cleanup, calls, stop_event)
               /\ UNCHANGED <<processing_msg, status, loading_task,
                              propagated, raised>>
          [] outcome = "raise" ->
               /\ OnException(pc, media_sent, FALSE, all_files_to_cleanup, calls)
               /\ UNCHANGED <<processing_msg, status, loading_task>>
    /\ UNCHANGED <<chat, fetchers, send_vars, fetch_vars, stats_vars, reddit_vars, failures, launched, send_error,
                   download_result, all_files_to_cleanup, media_sent, out_path,
                   audio_duration, FFMPEG_AVAILABLE, disk, produced>>

\* Line 117: the fetched files that are not tracked yet.
RECURSIVE Untracked(_, _)
Untracked(files, tracked) ==
    IF files = <<>> THEN <<>>
    ELSE IF Head(files) \in Range(tracked) THEN Untracked(Tail(files), tracked)
    ELSE <<Head(files)>> \o Untracked(Tail(files), tracked)
\* Lines 85-86 and 116-117: a fetch's files are tracked as soon as it returns.
TrackFetched(tracked, files) == tracked \o Untracked(files, tracked)

\* services/downloader.py 385-389: the texts the ambiguous-content signal
\* carries, the reason put in the result that the raise discards and the
\* message of the exception.
NonVideoContentTexts ==
    {"Content likely requires login or is not a standard video",
     "yt-dlp failed with error suggesting unsupported content: "}
\* An except clause that makes the signal's message the failure text.
OnNonVideoContentReported(fsm) ==
    <<CROSS, "yt-dlp failed with error suggesting unsupported content: ", valid_url>>
\* Lines 95-97: except NonVideoContentError as nve logs nve and leaves the
\* failure text as it is.
OnNonVideoContent(fsm) == fsm

\* Lines 84-96: download_media_yt_dlp returns a result, or raises
\* NonVideoContentError (the fallback follows), or raises something else.
YtDlpReturn ==
    /\ pc = "yt_dlp"
    /\ \/ \E r \in YtDlpResults \cup SubstituteResults(FALSE) :
            LET tracked == IF r.media_files # <<>>
                           THEN all_files_to_cleanup \o r.media_files
                           ELSE all_files_to_cleanup
                fsm == IF ~r.success /\ r.error_message # ""
                       THEN <<CROSS, r.error_message>> ELSE <<>>
            IN  /\ download_result' = <<r>>
                /\ all_files_to_cleanup' = tracked
                /\ disk' = disk \cup OnDisk(r)
                /\ produced' = produced \cup Range(r.media_files)
                /\ Deliver(<<r>>, fsm, tracked, FFMPEG_AVAILABLE, calls)
                /\ outcomes' = Append(outcomes, Answer(pc, <<"result", r>>))
                /\ UNCHANGED <<propagated, raised>>
       \/ /\ BeginSwitch(<<TRYING>>, calls, OnNonVideoContent(final_status_message))
          /\ raised' = raised \cup {"NonVideoContentError"}
          /\ outcomes' = Append(outcomes, Answer(pc, <<"NonVideoContentError">>))
          /\ UNCHANGED <<download_result, all_files_to_cleanup, disk,
                         produced, propagated>>
       \/ /\ OnException(pc, media_sent, processing_msg, all_files_to_cleanup, calls)
          /\ outcomes' = Append(outcomes, Answer(pc, <<"raise">>))
          /\ UNCHANGED <<download_result, all_files_to_cleanup, disk,
                         produced>>
    /\ UNCHANGED <<chat, fetchers, send_vars, fetch_vars, stats_vars, reddit_vars, failures, launched, send_error,
                   processing_msg, loading_task, media_sent, out_path,
                   audio_duration, FFMPEG_AVAILABLE, status>>

\* wait_for's timeout passes with the task unfinished: wait_for cancels it.
WaitForTimeout ==
    /\ pc \in {"switch_wait", "post_send_wait"}
    /\ LoadingTaskRunning
    /\ ~tasks[loading_task].cancel
    /\ tasks' = [tasks EXCEPT ![loading_task].cancel = TRUE]
    /\ UNCHANGED <<chat, fetchers, outcomes, send_vars, fetch_vars, stats_vars, reddit_vars, failures, launched, send_error,
                   pc, processing_msg, stop_event, loading_task,
                   download_result, all_files_to_cleanup, final_status_message,
                   media_sent, current_status_text, out_path, audio_duration,
                   FFMPEG_AVAILABLE, status, disk, produced, calls, propagated,
                   raised>>

\* A switch that writes the first phase's text again.
SwitchWaitReturnWithBaseText ==
    /\ pc = "switch_wait"
    /\ WaitForReturns(loading_task)
    /\ Suspend("switch_edit", Append(calls, Call("edit_text", <<>>, base_processing_text)),
               final_status_message, base_processing_text, FALSE, tasks)
    /\ UNCHANGED <<chat, fetchers, outcomes, send_vars, fetch_vars, stats_vars, reddit_vars, failures, launched, send_error,
                   processing_msg, loading_task, download_result,
                   all_files_to_cleanup, media_sent, out_path, audio_duration,
                   FFMPEG_AVAILABLE, status, disk, produced, propagated,
                   raised>>

\* Lines 104-106: the wait is over; stop_event.clear() and the edit.
SwitchWaitReturn ==
    /\ pc = "switch_wait"
    /\ WaitForReturns(loading_task)
    /\ Suspend("switch_edit", Append(calls, Call("edit_text", <<>>, current_status_text)),
               final_status_message, current_status_text, FALSE, tasks)
    /\ UNCHANGED <<chat, fetchers, outcomes, send_vars, fetch_vars, stats_vars, reddit_vars, failures, launched, send_error,
                   processing_msg, loading_task, download_result,
                   all_files_to_cleanup, media_sent, out_path, audio_duration,
                   FFMPEG_AVAILABLE, status, disk, produced, propagated,
                   raised>>

\* A classification that takes every file for an audio file.
AudiosAnyFile(files) == files

Images(files) == SortedByIndex(FilterExt(files, SUPPORTED_IMAGE_EXTENSIONS))
Audios(files) == FilterExt(files, SUPPORTED_AUDIO_EXTENSIONS)

\* A transcode step that looks at its input only.
LaunchesWhateverFlag(input, ffmpeg) == input \in disk

\* services/media_processing.py 74-79, 170-181, 352-357: a transcode step goes
\* on to start ffmpeg or ffprobe when config.FFMPEG_AVAILABLE is set and its
\* input exists; else it returns at once (None, False).
Launches(input, ffmpeg) == ffmpeg /\ input \in disk

\* Lines 106-115 (143-151, 199-212, 237-260): edit_text returns or raises.
\* When it returns the next animation task is created; when it raises the
\* except clause logs it and no task is created.  Either way the phase's
\* collaborator is called next.
SwitchEditReturn ==
    /\ pc = "switch_edit"
    /\ \E ok \in BOOLEAN :
        LET ts == IF ok THEN Append(tasks, NewTask(current_status_text)) ELSE tasks
            files == IF download_result = <<>> THEN <<>> ELSE download_result[1].media_files
        IN  /\ ok => status.exists
            /\ status' = IF ok THEN [status EXCEPT !.text = current_status_text] ELSE status
            /\ loading_task' = IF ok THEN Len(ts) ELSE loading_task
            /\ raised' = IF ok THEN raised ELSE raised \cup {pc}
            /\ CASE current_status_text = <<TRYING>> ->
                      /\ Suspend("gallery",
                                 Append(calls, Call("download_gallery_dl", <<>>, <<>>)),
                                 final_status_message, current_status_text, stop_event, ts)
                      /\ UNCHANGED <<out_path, launched>>
                 [] current_status_text = <<CONVERTING>> ->
                      /\ Suspend("probe",
                                 Append(calls, Call("get_audio_duration",
                                                    <<Audios(files)[1]>>, <<>>)),
                                 final_status_message, current_status_text, stop_event, ts)
                      /\ launched' = IF Launches(Audios(files)[1], FFMPEG_AVAILABLE)
                                     THEN launched \cup {"probe"} ELSE launched
                      /\ UNCHANGED out_path
                 [] current_status_text = <<OPTIMIZING>> ->
                      LET video == VideoToProcess(files)[1]
                          out == ProcessedPath(video, disk)
                      IN  /\ Suspend("optimize",
                                     Append(calls, Call("process_video_for_telegram",
                                                        <<video, out>>, <<>>)),
                                     final_status_message, current_status_text, stop_event,
                                     ts)
                          /\ out_path' = <<out>>
                          /\ launched' = IF Launches(video, FFMPEG_AVAILABLE)
                                         THEN launched \cup {"optimize"} ELSE launched
                 [] OTHER ->
                      /\ Suspend("send",
                                 Append(calls, Call("send_downloaded_media", files,
                                                    FinalCaption)),
                                 final_status_message, current_status_text, stop_event, ts)
                      /\ UNCHANGED <<out_path, launched>>
    /\ UNCHANGED <<chat, fetchers, outcomes, send_vars, fetch_vars, stats_vars, reddit_vars, failures, send_error,
                   processing_msg, download_result, all_files_to_cleanup,
                   media_sent, audio_duration, FFMPEG_AVAILABLE, disk, produced,
                   propagated>>

\* Lines 115-132: download_gallery_dl returns a result or raises.  A failure
\* sets the failure text; a result with images and audio goes to the composer
\* when ffmpeg is there; anything else goes on to delivery.

\* A failure text without the default for a missing reason.
AlternativeFailureAsIs(r) == <<CROSS, r.error_message>>
\* Lines 120-123: the failure text of a secondary fetch without success,
\* error_msg = download_result.error_message or "Failed alternative download."
AlternativeFailure(r) ==
    <<CROSS, IF r.error_message # "" THEN r.error_message
             ELSE "Failed alternative download.">>
GalleryReturn ==
    /\ pc = "gallery"
    /\ \/ \E r \in GalleryResults \cup SubstituteResults(TRUE) :
            LET tracked == IF r.media_files # <<>>
                           THEN TrackFetched(all_files_to_cleanup, r.media_files)
                           ELSE all_files_to_cleanup
                fsm == IF ~r.success THEN AlternativeFailure(r) ELSE <<>>
            IN  /\ download_result' = <<r>>
                /\ all_files_to_cleanup' = tracked
                /\ disk' = disk \cup OnDisk(r)
                /\ produced' = produced \cup Range(r.media_files)
                /\ IF /\ r.success
                      /\ FFMPEG_AVAILABLE /\ FFMPEG_CONVERT_SLIDESHOW /\ r.media_files # <<>>
                      /\ Images(r.media_files) # <<>> /\ Audios(r.media_files) # <<>>
                   THEN BeginSwitch(<<CONVERTING>>, calls, fsm)
                   ELSE Deliver(<<r>>, fsm, tracked, FFMPEG_AVAILABLE, calls)
                /\ outcomes' = Append(outcomes, Answer(pc, <<"result", r>>))
                /\ UNCHANGED <<propagated, raised>>
       \/ /\ OnException(pc, media_sent, processing_msg, all_files_to_cleanup, calls)
          /\ outcomes' = Append(outcomes, Answer(pc, <<"raise">>))
          /\ UNCHANGED <<download_result, all_files_to_cleanup, disk,
                         produced>>
    /\ UNCHANGED <<chat, fetchers, send_vars, fetch_vars, stats_vars, reddit_vars, failures, launched, send_error,
                   processing_msg, loading_task, media_sent, out_path,
                   audio_duration, FFMPEG_AVAILABLE, status>>

\* services/media_processing.py get_audio_duration: None (ffprobe not
\* available, the file gone, ffprobe failed or gave no duration above zero),
\* None with the flag cleared (ffprobe not found), or the duration, here in
\* tenths of a second.
ProbeOutcomes(audio_path) ==
    IF "probe" \in launched
    THEN {[duration |-> d, found |-> TRUE] : d \in {<<>>, <<1>>, <<120>>}}
           \cup {[duration |-> <<>>, found |-> FALSE]}
    ELSE {[duration |-> <<>>, found |-> TRUE]}

\* A test that takes any duration the probe returns.
ValidDurationNotNone(duration) == duration # <<>>

\* if audio_duration and audio_duration > 0.1, line 152.
ValidDuration(duration) == duration # <<>> /\ duration[1] > 1

\* Lines 151-163: get_audio_duration returns or raises.  With a valid duration
\* the output path is chosen and the composer called; else the conversion is
\* skipped.
ProbeReturn ==
    /\ pc = "probe"
    /\ LET files == download_result[1].media_files
           audio_path == Audios(files)[1]
           out == GeneratedPath(audio_path, disk)
       IN  \/ \E outcome \in ProbeOutcomes(audio_path) :
                /\ audio_duration' = outcome.duration
                /\ outcomes' = Append(outcomes, Answer(pc, <<"result", outcome>>))
                /\ FFMPEG_AVAILABLE' = (FFMPEG_AVAILABLE /\ outcome.found)
                /\ failures' = IF ValidDuration(outcome.duration) THEN failures
                               ELSE failures \cup {pc}
                /\ IF ValidDuration(outcome.duration)
                   THEN /\ Suspend("compose",
                                   Append(calls, Call("create_slideshow_video",
                                                      Images(files), <<>>)),
                                   final_status_message, current_status_text, stop_event,
                                   tasks)
                        /\ out_path' = <<out>>
                        /\ launched' = IF Launches(audio_path, FFMPEG_AVAILABLE')
                                       THEN launched \cup {"compose"} ELSE launched
                   ELSE /\ Deliver(download_result, final_status_message,
                                   all_files_to_cleanup, FFMPEG_AVAILABLE', calls)
                        /\ UNCHANGED <<out_path, launched>>
                /\ UNCHANGED <<propagated, raised>>
           \/ /\ OnException(pc, media_sent, processing_msg, all_files_to_cleanup, calls)
              /\ outcomes' = Append(outcomes, Answer(pc, <<"raise">>))
              /\ UNCHANGED <<audio_duration, out_path, FFMPEG_AVAILABLE, failures, launched>>
    /\ UNCHANGED <<chat, fetchers, send_vars, fetch_vars, stats_vars, reddit_vars, send_error,
                   processing_msg, loading_task, download_result,
                   all_files_to_cleanup, media_sent, status, disk, produced>>

\* What a transcode (create_slideshow_video, process_video_for_telegram) can
\* come to, given that its input is there: "ok" (True, the output written),
\* "failed" (False, no output left), "leftover" (False, the output could not
\* be unlinked), "not found" (ffmpeg missing: the flag cleared, False), "raise".
\* Without ffmpeg or without its input it returns False at once.
TranscodeOutcomes(step) ==
    IF step \in launched
    THEN {"ok", "failed", "leftover", "not found", "raise"}
    ELSE {"failed", "raise"}

\* A tracking that forgets the output of a failed composition.
TrackComposedOnSuccess(conversion_success, exists, tracked, video_filename) ==
    IF conversion_success /\ exists THEN Append(tracked, video_filename) ELSE tracked

\* Lines 165-174: the composed video replaces the file set and is tracked; a
\* failed composition's output is tracked when it exists.
TrackComposed(conversion_success, exists, tracked, video_filename) ==
    IF conversion_success /\ exists THEN Append(tracked, video_filename)
    ELSE IF exists /\ video_filename \notin Range(tracked)
         THEN Append(tracked, video_filename)
         ELSE tracked

\* A fallback that hands the output path on whether or not the file is there.
AfterComposeWhatever(dr, conversion_success, exists, video_filename) ==
    [dr EXCEPT !.media_files = <<video_filename>>, !.is_slideshow = FALSE]

\* Lines 165-174: the file set after the composer.  Its video replaces the
\* set when it succeeded and the file exists; else the set stays as fetched.
AfterCompose(dr, conversion_success, exists, video_filename) ==
    IF conversion_success /\ exists
    THEN [dr EXCEPT !.media_files = <<video_filename>>, !.is_slideshow = FALSE]
    ELSE dr

\* Lines 161-178: create_slideshow_video returns or raises.
ComposeReturn ==
    /\ pc = "compose"
    /\ LET dr == download_result[1]
           out == out_path[1]
       IN  \E outcome \in TranscodeOutcomes(pc) :
             /\ outcomes' = Append(outcomes, Answer(pc, outcome))
             /\ IF outcome = "raise"
                THEN /\ OnException(pc, media_sent, processing_msg, all_files_to_cleanup, calls)
                     /\ UNCHANGED <<download_result, all_files_to_cleanup,
                                    FFMPEG_AVAILABLE, disk, produced, failures,
                                    launched>>
                ELSE LET conversion_success == outcome = "ok"
                         files == IF outcome \in {"ok", "leftover"} THEN disk \cup {out} ELSE disk
                         tracked == TrackComposed(conversion_success, out \in files,
                                                  all_files_to_cleanup, out)
                         result == AfterCompose(dr, conversion_success, out \in files, out)
                     IN  /\ failures' = IF conversion_success /\ out \in files THEN failures
                                        ELSE failures \cup {pc}
                         /\ disk' = files
                         /\ produced' = produced \cup (files \ disk)
                         /\ FFMPEG_AVAILABLE' = (FFMPEG_AVAILABLE /\ outcome # "not found")
                         /\ download_result' = <<result>>
                         /\ all_files_to_cleanup' = tracked
                         /\ Deliver(<<result>>, final_status_message, tracked,
                                    FFMPEG_AVAILABLE', calls)
                         /\ UNCHANGED <<propagated, raised, launched>>
    /\ UNCHANGED <<chat, fetchers, send_vars, fetch_vars, stats_vars, reddit_vars, send_error,
                   processing_msg, loading_task, media_sent, out_path,
                   audio_duration, status>>

\* A tracking that forgets the output of a failed processing.
TrackProcessedOnSuccess(processing_success, exists, tracked, processed_video_path) ==
    IF processing_success /\ exists THEN Append(tracked, processed_video_path) ELSE tracked

\* Lines 214-222: the processed video replaces the file set and is tracked; a
\* failed processing's output is tracked when it exists.
TrackProcessed(processing_success, exists, tracked, processed_video_path) ==
    IF processing_success /\ exists THEN Append(tracked, processed_video_path)
    ELSE IF exists /\ processed_video_path \notin Range(tracked)
         THEN Append(tracked, processed_video_path)
         ELSE tracked

\* A replacement of the processed video's original only, the other files kept.
AfterOptimizeKeepingOthers(dr, processing_success, exists, processed_video_path) ==
    IF processing_success /\ exists
    THEN [dr EXCEPT !.media_files =
             [i \in DOMAIN dr.media_files |->
                 IF dr.media_files[i] = VideoToProcess(dr.media_files)[1]
                 THEN processed_video_path ELSE dr.media_files[i]]]
    ELSE dr

\* Lines 214-222: the file set after the optimizer.  The processed video
\* replaces the set when it succeeded and the file exists; else the set stays.
AfterOptimize(dr, processing_success, exists, processed_video_path) ==
    IF processing_success /\ exists
    THEN [dr EXCEPT !.media_files = <<processed_video_path>>]
    ELSE dr

\* Lines 212-237: process_video_for_telegram returns or raises; sending follows.
OptimizeReturn ==
    /\ pc = "optimize"
    /\ LET dr == download_result[1]
           out == out_path[1]
       IN  \E outcome \in TranscodeOutcomes(pc) :
             /\ outcomes' = Append(outcomes, Answer(pc, outcome))
             /\ IF outcome = "raise"
                THEN /\ OnException(pc, media_sent, processing_msg, all_files_to_cleanup, calls)
                     /\ UNCHANGED <<download_result, all_files_to_cleanup,
                                    FFMPEG_AVAILABLE, disk, produced, failures,
                                    launched>>
                ELSE LET processing_success == outcome = "ok"
                         files == IF outcome \in {"ok", "leftover"} THEN disk \cup {out} ELSE disk
                         tracked == TrackProcessed(processing_success, out \in files,
                                                   all_files_to_cleanup, out)
                         result == AfterOptimize(dr, processing_success, out \in files, out)
                     IN  /\ failures' = IF processing_success /\ out \in files THEN failures
                                        ELSE failures \cup {pc}
                         /\ disk' = files
                         /\ produced' = produced \cup (files \ disk)
                         /\ FFMPEG_AVAILABLE' = (FFMPEG_AVAILABLE /\ outcome # "not found")
                         /\ download_result' = <<result>>
                         /\ all_files_to_cleanup' = tracked
                         /\ BeginSwitch(<<SENDING>>, calls, final_status_message)
                         /\ UNCHANGED <<propagated, raised, launched>>
    /\ UNCHANGED <<chat, fetchers, send_vars, fetch_vars, stats_vars, reddit_vars, send_error,
                   processing_msg, loading_task, media_sent, out_path,
                   audio_duration, status>>

\* utils/telegram_helpers.py send_downloaded_media: True only when an item was
\* sent, and an item is sent only from a file that exists and is an image, a
\* video or an audio file; every exception inside is caught and gives False.
Sendable(files) ==
    \E f \in Range(files) :
        /\ f \in disk
        /\ f.ext \in SUPPORTED_IMAGE_EXTENSIONS \cup SUPPORTED_VIDEO_EXTENSIONS
                       \cup SUPPORTED_AUDIO_EXTENSIONS

\* Lines 254-279 of it: the exception of a send, which it catches and answers
\* with False; "" when no file was there to send and nothing was raised.
SendErrors(files) ==
    IF Sendable(files) THEN {"BadRequest: file is too big", "TelegramError: timed out"}
    ELSE {""}

\* Lines 255-268: send_downloaded_media returns or raises; a running animation
\* task gets the stop signal and is awaited (wait_for, 0.5).
SendReturn ==
    /\ pc = "send"
    /\ LET files == download_result[1].media_files
       IN  \/ \E sent \in (IF Sendable(files) THEN BOOLEAN ELSE {FALSE}) :
              \E error \in (IF sent THEN {""} ELSE SendErrors(files)) :
                /\ media_sent' = sent
                /\ outcomes' = Append(outcomes, Answer(pc, <<"result", sent>>))
                /\ send_error' = error
                /\ IF LoadingTaskRunning
                   THEN /\ Suspend("post_send_wait", calls, final_status_message,
                                   current_status_text, TRUE, tasks)
                        /\ UNCHANGED <<propagated, raised>>
                   ELSE PostSend(sent, files, all_files_to_cleanup, calls)
           \/ /\ OnException(pc, media_sent, processing_msg, all_files_to_cleanup, calls)
              /\ outcomes' = Append(outcomes, Answer(pc, <<"raise">>))
              /\ UNCHANGED <<media_sent, send_error>>
    /\ UNCHANGED <<chat, fetchers, send_vars, fetch_vars, stats_vars, reddit_vars, failures, launched,
                   processing_msg, loading_task, download_result,
                   all_files_to_cleanup, out_path, audio_duration,
                   FFMPEG_AVAILABLE, status, disk, produced>>

\* Lines 268-283: the wait after the delivery attempt is over.
PostSendWaitReturn ==
    /\ pc = "post_send_wait"
    /\ WaitForReturns(loading_task)
    /\ PostSend(media_sent, download_result[1].media_files, all_files_to_cleanup, calls)
    /\ UNCHANGED <<chat, fetchers, outcomes, send_vars, fetch_vars, stats_vars, reddit_vars, failures, launched, send_error,
                   processing_msg, loading_task, download_result,
                   all_files_to_cleanup, media_sent, out_path, audio_duration,
                   FFMPEG_AVAILABLE, status, disk, produced>>

\* Lines 273-274 and the finally block: delete returns or raises (suppressed);
\* processing_msg = None either way.
DeleteReturn ==
    /\ pc = "delete"
    /\ \E ok \in BOOLEAN :
        /\ status' = IF ok THEN [status EXCEPT !.exists = FALSE] ELSE status
        /\ raised' = IF ok THEN raised ELSE raised \cup {pc}
    /\ processing_msg' = FALSE
    /\ EnterFinally(final_status_message, media_sent, FALSE, all_files_to_cleanup, calls,
                    stop_event)
    /\ UNCHANGED <<chat, fetchers, outcomes, send_vars, fetch_vars, stats_vars, reddit_vars, failures, launched, send_error,
                   loading_task, download_result, all_files_to_cleanup,
                   media_sent, out_path, audio_duration, FFMPEG_AVAILABLE, disk,
                   produced, propagated>>

\* Lines 309-315: the wait of the finally block is over (any exception of it
\* is suppressed).
FinallyWaitReturn ==
    /\ pc = "finally_wait"
    /\ WaitForReturns(loading_task)
    /\ FinalStatus(final_status_message, media_sent, processing_msg, all_files_to_cleanup,
                   calls, stop_event, tasks)
    /\ UNCHANGED <<chat, fetchers, outcomes, send_vars, fetch_vars, stats_vars, reddit_vars, failures, launched, send_error,
                   processing_msg, loading_task, download_result,
                   all_files_to_cleanup, media_sent, out_path, audio_duration,
                   FFMPEG_AVAILABLE, status, disk, produced, propagated,
                   raised>>

\* Lines 320-338: the final edit returns, or raises: then the text is sent as
\* a new message unless there is a reply_to_message.
FinalEditReturn ==
    /\ pc = "final_edit"
    /\ \E ok \in BOOLEAN :
        /\ ok => status.exists
        /\ status' = IF ok
                     THEN [status EXCEPT !.text = StatusUpdateText(final_status_message)]
                     ELSE status
        /\ raised' = IF ok THEN raised ELSE raised \cup {pc}
        /\ IF ~ok /\ ~reply_to_message
           THEN Suspend("final_send",
                        Append(calls, Call("send_message", <<>>,
                                           StatusUpdateText(final_status_message))),
                        final_status_message, current_status_text, stop_event, tasks)
           ELSE Finish(calls, final_status_message, all_files_to_cleanup, stop_event, tasks)
    /\ UNCHANGED <<chat, fetchers, outcomes, send_vars, fetch_vars, stats_vars, reddit_vars, failures, launched, send_error,
                   processing_msg, loading_task, download_result,
                   all_files_to_cleanup, media_sent, out_path, audio_duration,
                   FFMPEG_AVAILABLE, disk, produced, propagated>>

\* Lines 331-332, 337-338, 342-344: send_message returns or raises (logged).
FinalSendReturn ==
    /\ pc = "final_send"
    /\ \E ok \in BOOLEAN : raised' = IF ok THEN raised ELSE raised \cup {pc}
    /\ Finish(calls, final_status_message, all_files_to_cleanup, stop_event, tasks)
    /\ UNCHANGED <<chat, fetchers, outcomes, send_vars, fetch_vars, stats_vars, reddit_vars, failures, launched, send_error,
                   processing_msg, loading_task, download_result,
                   all_files_to_cleanup, media_sent, out_path, audio_duration,
                   FFMPEG_AVAILABLE, status, disk, produced, propagated>>

\* utils/file_cleanup.py _cleanup_media_files: every path that exists is
\* unlinked; an unlink that fails (OSError) is logged and the file stays (here
\* the unlinks of a run succeed or fail together).  Line 348: process_link
\* returns.
CleanupReturn ==
    /\ pc = "cleanup"
    /\ LET media_files == Range(calls[Len(calls)].files)
       IN  \E failed \in {{}, media_files \cap disk} :
             disk' = (disk \ media_files) \cup failed
    /\ pc' = "done"
    /\ UNCHANGED produced
    /\ UNCHANGED <<chat, fetchers, outcomes, send_vars, fetch_vars, stats_vars, reddit_vars, failures, launched, send_error,
                   processing_msg, stop_event, loading_task, tasks,
                   download_result, all_files_to_cleanup, final_status_message,
                   media_sent, current_status_text, out_path, audio_duration,
                   FFMPEG_AVAILABLE, status, calls, propagated, raised>>

Animation == \E i \in 1..Len(tasks) : AnimLoop(i) \/ AnimEditReturn(i) \/ AnimCancelled(i)

Next ==
    \/ InitialSendReturn
    \/ YtDlpReturn
    \/ WaitForTimeout
    \/ SwitchWaitReturn
    \/ SwitchEditReturn
    \/ GalleryReturn
    \/ ProbeReturn
    \/ ComposeReturn
    \/ OptimizeReturn
    \/ SendReturn
    \/ PostSendWaitReturn
    \/ DeleteReturn
    \/ FinallyWaitReturn
    \/ FinalEditReturn
    \/ FinalSendReturn
    \/ CleanupReturn
    \/ Animation

Spec == Init /\ [][Next]_vars
AnyFetcherSpec == InitAnyFetcher /\ [][Next]_vars

\* The steps of process_link itself.  Every call it awaits returns or raises,
\* a wait_for's timeout passes, and the event loop runs a task that can run.
ProcessLink ==
    \/ InitialSendReturn \/ YtDlpReturn \/ SwitchWaitReturn \/ SwitchEditReturn
    \/ GalleryReturn \/ ProbeReturn \/ ComposeReturn \/ OptimizeReturn \/ SendReturn
    \/ PostSendWaitReturn \/ DeleteReturn \/ FinallyWaitReturn \/ FinalEditReturn
    \/ FinalSendReturn \/ CleanupReturn
FairSpec ==
    Spec /\ WF_vars(ProcessLink) /\ WF_vars(WaitForTimeout) /\ WF_vars(Animation)

\* ------------------------------------------------- the claims
IsDuplicateFree(files) == \A i, j \in DOMAIN files : files[i] = files[j] => i = j
Returned == pc = "done"
Failed == Returned /\ ~media_sent /\ final_status_message # <<>>
Delivered == Returned /\ media_sent

\* C1: on every path process_link returns, and _cleanup_media_files is called
\* exactly once in the run, as its last call (nothing is sent, edited, deleted
\* or fetched after it), with every tracked path exactly once.
C1_CleanupCall ==
    LET cleanups == Calls("_cleanup_media_files")
    IN  /\ Cardinality(cleanups) <= 1
        /\ \A i \in cleanups :
              /\ i = Len(calls)
              /\ IsDuplicateFree(calls[i].files)
              /\ Range(calls[i].files) = Range(all_files_to_cleanup)
        /\ cleanups # {} <=> pc \in {"cleanup", "done"}
C1_CleanupOnceAndLast == []C1_CleanupCall /\ <>Returned
\* A run that an exception ended, with several tracked files cleaned up.
C1_Witness ==
    /\ Returned
    /\ final_status_message = UnexpectedError
    /\ Calls("send_downloaded_media") # {}
    /\ Len(calls[Len(calls)].files) >= 3

\* The run made the status message: the initial send returned it.
StatusCreated == status.text # <<>>
\* The texts of the phases, as process_link or an animation task writes them.
IntermediateTexts ==
    LET plain == {base_processing_text} \cup {<<t>> : t \in PhaseTexts}
    IN  plain \cup {Animated(t) : t \in plain}
StatusFinal ==
    \/ ~status.exists /\ media_sent
    \/ /\ status.exists /\ ~media_sent /\ final_status_message # <<>>
       /\ status.text = StatusUpdateText(final_status_message)

\* C2 (as stated): when a run that made the status message has returned, the
\* message is deleted (after a delivery) or shows the failure text with the
\* link, whatever the edit and delete calls came to.
C2_StatusAlwaysFinal == Returned /\ StatusCreated => StatusFinal
\* C2 (amended): a run that made the status message calls exactly one of
\* delete (after a delivery) and the final edit (after a failure); when that
\* call does not raise, the message is deleted or shows the failure text with
\* the link when the run returns; when it raises, the message stays, showing
\* the text of a phase.
C2_StatusFinalUnlessCallRaises ==
    Returned /\ StatusCreated =>
        /\ Cardinality(Calls("delete") \cup Calls("edit_final")) = 1
        /\ Calls("delete") # {} <=> media_sent
        /\ IF raised \cap {"delete", "final_edit"} = {}
           THEN StatusFinal
           ELSE status.exists /\ status.text \in IntermediateTexts
\* A failed run whose final edit was made, after a phase's animation had
\* written its bar.
C2_Witness ==
    /\ Returned /\ StatusCreated /\ raised = {"NonVideoContentError"}
    /\ Len(tasks) >= 2
    /\ status.text = StatusUpdateText(final_status_message)
\* A delivered run whose delete raised: the message still shows the bar.
C2_WitnessStuck ==
    /\ Returned /\ media_sent /\ "delete" \in raised
    /\ status.text = Animated(<<SENDING>>)

SecondaryFetches == Calls("download_gallery_dl")
TryingSwitch == pc \in {"switch_wait", "switch_edit"} /\ current_status_text = <<TRYING>>

\* C3: in a run whose primary fetch raised NonVideoContentError the secondary
\* fetch is called exactly once, as soon as the switch to the 'Trying
\* alternative' phase is over, however that switch went; in a run without the
\* signal it is never called.
C3_SecondaryFetchOnceOnSignal ==
    /\ Cardinality(SecondaryFetches) <= 1
    /\ SecondaryFetches # {} => "NonVideoContentError" \in raised
    /\ "NonVideoContentError" \in raised /\ ~TryingSwitch => SecondaryFetches # {}
    /\ Returned /\ "NonVideoContentError" \in raised => Cardinality(SecondaryFetches) = 1
\* The secondary fetch is running although the edit for its phase raised and
\* the first animation task had to be stopped.
C3_Witness ==
    /\ pc = "gallery"
    /\ raised = {"NonVideoContentError", "switch_edit"}
    /\ Len(tasks) = 1 /\ TaskDone(tasks[1])
    /\ Cardinality(SecondaryFetches) = 1

\* The steps whose exception reaches the except clause of process_link.
UnexpectedSteps ==
    {"send_initial", "yt_dlp", "gallery", "probe", "compose", "optimize", "send", "stat"}
FinalTexts == {calls[i].text : i \in Calls("edit_final") \cup Calls("send_message")}

\* C4 (as stated): an exception at any step, the status edits among them,
\* ends the run Failed with the generic text.
C4_AnyExceptionFails ==
    Returned /\ raised \cap (UnexpectedSteps \cup {"switch_edit", "final_edit"}) # {} =>
        Failed /\ final_status_message = UnexpectedError
\* C4 (amended): no exception leaves process_link.  An exception of the
\* initial send, a fetch (other than NonVideoContentError), the probe, the
\* composer, the optimizer, the delivery or the size check ends the try block:
\* the failure text is the generic one, nothing was delivered, the final text
\* written is the generic one with the link, and the cleanup is called.
C4_ExceptionsEndInGenericFailure ==
    /\ ~propagated
    /\ raised \cap UnexpectedSteps # {} =>
          /\ Cardinality(raised \cap UnexpectedSteps) = 1
          /\ pc \in {"finally_wait", "final_edit", "final_send", "cleanup", "done"}
          /\ final_status_message = UnexpectedError /\ ~media_sent
          /\ FinalTexts \subseteq {StatusUpdateText(UnexpectedError)}
          /\ Returned => Failed /\ FinalTexts # {} /\ Calls("_cleanup_media_files") # {}
\* The composer raised, after both fetches and two phase switches.
C4_Witness ==
    /\ Returned /\ raised = {"NonVideoContentError", "compose"}
    /\ status.text = StatusUpdateText(UnexpectedError)
    /\ all_files_to_cleanup # <<>>
\* A run that delivered although the edit of a phase switch raised.
C4_WitnessSwallowed == Delivered /\ "switch_edit" \in raised

\* C5: when the primary fetch returns a failure with a reason, the failure
\* text is that reason, every final text the run writes holds the reason and
\* the link, the final edit is made (and, unless it raises, is what the status
\* message shows), and neither the delivery nor the secondary fetch, the
\* probe, the composer or the optimizer is called.
PrimaryFailure ==
    /\ download_result # <<>>
    /\ ~download_result[1].success /\ ~download_result[1].is_slideshow
    /\ download_result[1].error_message \in YtDlpErrors
C5_PrimaryFailureReason ==
    PrimaryFailure =>
        LET reason == download_result[1].error_message
        IN  /\ final_status_message = <<CROSS, reason>>
            /\ \A text \in FinalTexts : reason \in Range(text) /\ valid_url \in Range(text)
            /\ \A op \in {"send_downloaded_media", "download_gallery_dl", "get_audio_duration",
                           "create_slideshow_video", "process_video_for_telegram"} :
                  Calls(op) = {}
            /\ Returned =>
                  /\ Calls("edit_final") # {}
                  /\ "final_edit" \notin raised =>
                        reason \in Range(status.text) /\ valid_url \in Range(status.text)
\* The run has returned and the status message shows the reason and the link.
C5_Witness ==
    /\ Returned /\ PrimaryFailure
    /\ status.text = <<CROSS, "Download failed (Video/Account is private).",
                       "\nLink: ", valid_url>>

\* C6: at every moment at most one animation task is unfinished; while
\* process_link waits for the previous task the stop signal is set; and when
\* it edits the status text for the new phase, before it creates the next
\* task, every task created so far has finished.
C6_OneAnimationTask ==
    /\ Cardinality(Unfinished) <= 1
    /\ pc = "switch_wait" => stop_event
    /\ pc = "switch_edit" => Unfinished = {}
\* A phase switch whose wait timed out: the cancellation is on its way to the
\* task, which is inside its edit.
C6_Witness ==
    /\ pc = "switch_wait"
    /\ Len(tasks) = 2 /\ Unfinished = {2}
    /\ tasks[2].at = "editing" /\ tasks[2].cancel

\* C7: (a) when process_link deletes the status message or writes the final
\* text, (c) and from then on until it has returned, no animation task is
\* unfinished; (b) only the delete and the final edit themselves change the
\* status message from then on.
C7_AnimationStoppedAtTheEnd ==
    /\ [](pc \in {"delete", "final_edit", "final_send", "cleanup", "done"}
            => Unfinished = {})
    /\ [][/\ pc \in {"final_send", "cleanup", "done"} => status' = status
          /\ pc \in {"delete", "final_edit"} /\ status' # status => pc' # pc]_vars
\* The final edit is under way after an exception; the task that wrote the
\* bar of the sending phase was cancelled in the finally block.
C7_Witness ==
    /\ pc = "final_edit" /\ "send" \in raised
    /\ status.text = Animated(<<SENDING>>)
    /\ Len(tasks) >= 2 /\ Unfinished = {}

Composed == Calls("create_slideshow_video")
\* The secondary fetch returned images and an audio file with success, the
\* transcoder flag is (still) set and the switch to the conversion phase is
\* over.
SlideshowFetched ==
    /\ SecondaryFetches # {} /\ pc # "gallery" /\ "gallery" \notin raised
    /\ \E f \in produced : f.ext \in SUPPORTED_IMAGE_EXTENSIONS
    /\ \E f \in produced : f.ext \in SUPPORTED_AUDIO_EXTENSIONS
    /\ FFMPEG_AVAILABLE /\ FFMPEG_CONVERT_SLIDESHOW
    /\ ~(pc \in {"switch_wait", "switch_edit"} /\ current_status_text = <<CONVERTING>>)
\* The probe returned more than 0.1 s.
DurationAboveThreshold == audio_duration # <<>> /\ audio_duration[1] > 1
DeliveredFiles == {calls[i].files : i \in Calls("send_downloaded_media")}

\* C9 (as stated): with images and an audio file fetched and the transcoder
\* available, a run that no exception ended has called the composer once.
C9_ComposerAlwaysInvoked ==
    Returned /\ SlideshowFetched /\ raised \cap UnexpectedSteps = {} =>
        Cardinality(Composed) = 1
\* C9 (amended): with images and an audio file fetched and the transcoder
\* available the duration probe is called; the composer is called, once,
\* exactly when the probe returns more than 0.1 s; and when the composer
\* succeeds the files handed to delivery are one video and nothing else.
C9_ComposerOnValidDuration ==
    /\ Cardinality(Composed) <= 1
    /\ SlideshowFetched => Calls("get_audio_duration") # {}
    /\ Composed # {} <=> DurationAboveThreshold
    /\ Composed # {} /\ pc # "compose" /\ download_result # <<>>
         /\ ~download_result[1].is_slideshow =>
           \A files \in DeliveredFiles :
               Len(files) = 1 /\ files[1].ext \in SUPPORTED_VIDEO_EXTENSIONS
\* The composed video was delivered.
C9_Witness ==
    /\ Delivered /\ SlideshowFetched /\ Composed # {}
    /\ Cardinality({f \in produced : f.ext \in SUPPORTED_IMAGE_EXTENSIONS}) = MaxImages
    /\ ~download_result[1].is_slideshow
\* Images and audio were delivered loose: the probe gave no usable duration.
C9_WitnessSkipped ==
    /\ Delivered /\ SlideshowFetched /\ Composed = {}
    /\ audio_duration = <<1>>

\* The secondary fetch returned images and nothing else.
ImagesFetched ==
    /\ SecondaryFetches # {} /\ download_result # <<>>
    /\ download_result[1].success /\ download_result[1].media_files # <<>>
    /\ \A f \in Range(download_result[1].media_files) :
          f.ext \in SUPPORTED_IMAGE_EXTENSIONS

\* C10: when the secondary fetch returns images and no audio file, neither
\* the probe nor the composer is called, the delivery is called once the
\* switch to the sending phase is over, and the files handed to it are the
\* fetched images in the order the fetch returned them.
C10_ImagesDeliveredUnchanged ==
    ImagesFetched =>
        /\ Composed = {} /\ Calls("get_audio_duration") = {}
        /\ pc \notin {"switch_wait", "switch_edit"} => DeliveredFiles # {}
        /\ \A files \in DeliveredFiles :
              /\ files = [i \in 1..Len(files) |-> GdlImage(i)]
              /\ Range(files) = produced
\* All the images were delivered.
C10_Witness ==
    /\ Delivered /\ ImagesFetched
    /\ Len(download_result[1].media_files) = MaxImages
    /\ FFMPEG_AVAILABLE

\* The optimizer's output became the file set.
OptimizerSucceeded ==
    /\ Calls("process_video_for_telegram") # {} /\ pc # "optimize"
    /\ "optimize" \notin failures \cup raised
\* The files a fetch returned, as the fetch returned them.
FetchedFileLists == YtDlpFileLists \cup GalleryFileLists
\* The output path the composer was given.
ComposerOutputs == {GeneratedPath(GdlAudio, {})}

C11_WitnessOptimizer ==
    /\ Delivered /\ "optimize" \in failures
    /\ DeliveredFiles = {<<YtMerged>>}

\* The delivery was called and answered False, and the failure text is chosen.
SendFailed ==
    /\ Calls("send_downloaded_media") # {} /\ pc \notin {"send", "post_send_wait"}
    /\ ~media_sent /\ "send" \notin raised
TooBig == "BadRequest: file is too big"
Oversize == SumSizes(download_result[1].media_files) > TELEGRAM_MAX_SIZE
\* The failure texts of a fetch: its reason after the cross mark.
FetchFailureTexts ==
    {<<CROSS, e>> : e \in YtDlpErrors \cup GalleryErrors \cup {"Failed alternative download."}}

C12_WitnessTimeout ==
    /\ Returned /\ SendFailed /\ send_error = "TelegramError: timed out" /\ Oversize
    /\ final_status_message = TooLarge

\* A fetch answered with success and no file, and nothing raised since.
SuccessWithoutFiles ==
    /\ download_result # <<>>
    /\ download_result[1].success /\ download_result[1].media_files = <<>>
    /\ raised \cap UnexpectedSteps = {}

C14_RunEndsSilently ==
    Returned /\ SuccessWithoutFiles =>
        /\ ~Failed /\ ~Delivered /\ final_status_message = <<>>
        /\ FinalTexts = {} /\ Calls("delete") = {}
        /\ Calls("send_downloaded_media") = {}
        /\ status.exists /\ status.text \in IntermediateTexts
C14_WitnessSilent == Returned /\ SuccessWithoutFiles

\* The failure text has been issued, by an edit or as a new message.
FailureReported == pc \in {"cleanup", "done"} /\ final_status_message # <<>> /\ ~media_sent
NewMessages == Calls("send_message")

\* C15 (as stated): the failure text goes to the status message by an edit; a
\* new message carries it only when there is no message to reply to and the
\* status message is lost (its edit raised, or it was never created).
C15_NewMessageOnlyWithoutReply ==
    /\ FailureReported /\ StatusCreated => Calls("edit_final") # {}
    /\ NewMessages # {} =>
          /\ chat = "group"
          /\ "final_edit" \in raised \/ ~StatusCreated
\* C15 (amended): when the status message exists the failure text is written
\* to it by an edit, and a new message follows only if that edit raised and
\* there is no message to reply to; when no status message exists (the first
\* send raised) the failure text is posted as a new message, with or without a
\* message to reply to.  At most one new message is posted, and every text
\* issued is the failure text with the link.
C15_NewMessageWhenTargetLost ==
    /\ NewMessages # {} <=>
          \/ "send_initial" \in raised
          \/ "final_edit" \in raised /\ chat = "group"
    /\ Cardinality(NewMessages) <= 1
    /\ FailureReported =>
          /\ Calls("edit_final") # {} <=> StatusCreated
          /\ FinalTexts = {StatusUpdateText(final_status_message)}
    /\ ~StatusCreated => Calls("edit_final") = {}
\* The first send raised in a private chat and the failure text was posted.
C15_Witness ==
    /\ Returned /\ chat = "private" /\ "send_initial" \in raised
    /\ NewMessages # {} /\ Calls("edit_final") = {}
\* The final edit raised in a group chat and the failure text was posted.
C15_WitnessEditLost ==
    /\ Returned /\ chat = "group" /\ "final_edit" \in raised /\ NewMessages # {}

\* The order of the phases: Processing, TryingAlternative, ConvertingSlideshow,
\* Optimizing, Sending.
PhaseRank(text) ==
    CASE text = base_processing_text -> 0
      [] text = <<TRYING>> -> 1
      [] text = <<CONVERTING>> -> 2
      [] text = <<OPTIMIZING>> -> 3
      [] text = <<SENDING>> -> 4
      [] OTHER -> 5
\* The phase the status message shows: its text without the progress bar; a
\* final text comes after every phase.
ShownRank ==
    IF status.text = <<>> THEN 0
    ELSE IF status.text[Len(status.text)] = BAR
         THEN PhaseRank(SubSeq(status.text, 1, Len(status.text) - 1))
         ELSE PhaseRank(status.text)
\* The phases entered by a switch, in the order of the switches.
PhaseEdits == [i \in Calls("edit_text") |-> PhaseRank(calls[i].text)]

\* C16: the phase only moves forward.  The phase of the run never decreases,
\* the switches enter phases of strictly increasing order (so none twice and
\* none after a later one), each of them a phase after Processing, and the
\* phase the status message shows never decreases either.
C16_PhasesMoveForward ==
    /\ [](/\ \A i, j \in DOMAIN PhaseEdits : i < j => PhaseEdits[i] < PhaseEdits[j]
          /\ \A i \in DOMAIN PhaseEdits : PhaseEdits[i] \in 1..4
          /\ PhaseRank(current_status_text) \in 0..4
          /\ ShownRank <= PhaseRank(current_status_text) \/ ShownRank = 5)
    /\ [][/\ PhaseRank(current_status_text') >= PhaseRank(current_status_text)
          /\ ShownRank' >= ShownRank]_vars
\* A run that went through every phase.
C16_Witness ==
    /\ Delivered
    /\ {calls[i].text : i \in Calls("edit_text")}
         = {<<TRYING>>, <<CONVERTING>>, <<OPTIMIZING>>, <<SENDING>>}
    /\ raised = {"NonVideoContentError"}

\* ------------------------------------------------- services/downloader.py, run by run
\* Several runs of process_link fetch at once; each fetch is a call of
\* download_media_yt_dlp and, when that raises NonVideoContentError, a call of
\* download_gallery_dl.  A run is at "start", "extract_info" (awaiting
\* ydl.extract_info in the executor), "fallback" (the signal was raised, the
\* gallery call is next), "communicate" (awaiting the gallery-dl process),
\* "holding" (a result with files was returned and the run has yet to deliver
\* and clean them up) or "done".  Every run fetches the same URL path, whose
\* yt-dlp id is "id"; the hosts differ.
Runs == DOMAIN fetch_pc
\* With one run every answer of the collaborators is drawn; with more runs,
\* the answers that decide which files exist.
OneRun == Cardinality(Runs) = 1

\* How many values random.randint(10000, 99999) is drawn from.
MaxPrefixes == 2
Prefixes == RandomPrefix..(RandomPrefix + MaxPrefixes - 1)

\* config.SUPPORTED_HOSTNAMES after netloc.lower().replace('www.', '').
Hostnames ==
    {"instagram.com", "tiktok.com", "vm.tiktok.com", "vt.tiktok.com",
     "youtube.com", "youtu.be"}
\* 'tiktok.com' in hostname or 'vt.tiktok.com' in hostname
is_tiktok_url(hostname) == hostname \in {"tiktok.com", "vm.tiktok.com", "vt.tiktok.com"}
\* 'instagram.com' in hostname
is_instagram_url(hostname) == hostname = "instagram.com"

\* f"{unique_prefix}_%(id)s.%(ext)s" in the temporary directory.
YtDlpStem(n) == <<W("media_dl_ytdl"), Sep, N(n), Sep, W("id")>>
YtDlpPath(n, ext) == MkPath(YtDlpStem(n), ext)
\* glob.glob(f"{unique_prefix}_{safe_id}*.*")
Globbed(n, files) ==
    {p \in files : Len(p.stem) >= 5 /\ SubSeq(p.stem, 1, 5) = YtDlpStem(n)}

\* The suffixes of the files a yt-dlp call leaves behind it: the merged mp4,
\* the mp4 beside a stream it was merged from, two streams without a merge,
\* an unfinished download, nothing.
YtDlpWrites == {{".mp4"}, {".mp4", ".m4a"}, {".m4a", ".webm"}, {".part"}, {}}

\* sorted(downloaded_media, key=lambda p: p.name) for files of one stem: the
\* suffixes in alphabetical order.
SuffixOrder ==
    <<".aac", ".avi", ".jpeg", ".jpg", ".m4a", ".mkv", ".mov", ".mp3", ".mp4",
      ".ogg", ".opus", ".png", ".wav", ".webm", ".webp">>
RECURSIVE SortedByName(_, _)
SortedByName(files, i) ==
    IF i > Len(SuffixOrder) THEN <<>>
    ELSE (IF \E p \in files : p.ext = SuffixOrder[i]
          THEN <<CHOOSE p \in files : p.ext = SuffixOrder[i]>> ELSE <<>>)
           \o SortedByName(files, i + 1)

\* The outcome of a call: it raised NonVideoContentError, or it returned
\* result; files is the temporary directory after it.
Outcome(raised_signal, result, files) ==
    [raised |-> raised_signal, result |-> result, files |-> files]

\* Lines 315-364 and the finally of 417-426: extract_info returned an
\* info_dict.
OnInfo(hostname, n, files) ==
    LET possible_files == Globbed(n, files)
        downloaded_media ==
            {p \in possible_files : p.ext \in ALL_SUPPORTED_MEDIA_EXTENSIONS}
        merged == {p \in downloaded_media : p.ext = ".mp4"}
    IN  IF merged # {}
        THEN Outcome(FALSE,
                 DownloadResult(TRUE, <<CHOOSE p \in merged : TRUE>>, "", FALSE),
                 files \ (downloaded_media \ merged))
        ELSE IF downloaded_media # {}
        THEN Outcome(FALSE,
                 DownloadResult(TRUE, SortedByName(downloaded_media, 1), "", FALSE),
                 files)
        ELSE IF is_tiktok_url(hostname) \/ is_instagram_url(hostname)
        THEN Outcome(TRUE, DownloadResult(FALSE, <<>>, "", TRUE), files \ possible_files)
        ELSE Outcome(FALSE,
                 DownloadResult(FALSE, <<>>,
                     "Download failed (no compatible media files found after processing).",
                     FALSE),
                 files \ possible_files)

\* An error message is the set of the phrases below that str(e).lower()
\* contains.
\* The markers of content that is not a video, and no other.
UnsupportedMarkersWithoutLogin ==
    {"unsupported url", "no supported formats found", "not a video",
     "are you sure this is a video url?", "story", "photo", "image",
     "graphql error", "this post contains no media"}
\* Lines 377-382.
unsupported_markers ==
    {"unsupported url", "no supported formats found", "not a video",
     "are you sure this is a video url?", "story", "photo", "image",
     "graphql error", "login required", "this post contains no media",
     "age restricted", "private content"}
\* The phrases lines 377-403 look for ('is a live event' contains 'live
\* event').
Phrases ==
    {"unsupported url", "no supported formats found", "not a video",
     "are you sure this is a video url?", "story", "photo", "image",
     "graphql error", "login required", "this post contains no media",
     "age restricted", "private content",
     "private video", "private account", "geo-restricted",
     "unavailable in your country", "copyright", "max_filesize", "404 not found",
     "unable to download webpage", "live event", "premiere"}

\* The messages of at most k phrases.
RECURSIVE PhraseSets(_)
PhraseSets(k) ==
    IF k = 0 THEN {{}}
    ELSE LET less == PhraseSets(k - 1)
         IN  less \cup {m \cup {p} : m \in less, p \in Phrases}
\* How many phrases a message holds.
MaxPhrases == 2
ErrorMessages == PhraseSets(IF OneRun THEN MaxPhrases ELSE 0)

\* The reasons of lines 392-405; the last one quotes yt-dlp's message.
YtDlpReasons ==
    [private |-> "Download failed (Video/Account is private).",
     geo |-> "Download failed (Video is geo-restricted).",
     copyright |-> "Download failed (Copyright claim).",
     oversize |-> "Download failed (File size exceeds limit: 250 MB).",
     notfound |-> "Download failed (Content not found - 404 Error).",
     live |-> "Download failed (Livestreams/Premieres not supported).",
     other |-> "Download failed (yt-dlp: ...)"]

\* Lines 371-405: extract_info raised DownloadError or ExtractorError.
OnDownloadError(hostname, err_lower, files) ==
    LET is_likely_non_video == err_lower \cap unsupported_markers # {}
        failed(reason) == Outcome(FALSE, DownloadResult(FALSE, <<>>, reason, FALSE), files)
    IN  IF (is_tiktok_url(hostname) \/ is_instagram_url(hostname)) /\ is_likely_non_video
        THEN Outcome(TRUE, DownloadResult(FALSE, <<>>, "", TRUE), files)
        ELSE IF "private video" \in err_lower \/ "private account" \in err_lower
        THEN failed(YtDlpReasons.private)
        ELSE IF "geo-restricted" \in err_lower \/ "unavailable in your country" \in err_lower
        THEN failed(YtDlpReasons.geo)
        ELSE IF "copyright" \in err_lower THEN failed(YtDlpReasons.copyright)
        ELSE IF "max_filesize" \in err_lower THEN failed(YtDlpReasons.oversize)
        ELSE IF "404 not found" \in err_lower \/ "unable to download webpage" \in err_lower
        THEN failed(YtDlpReasons.notfound)
        ELSE IF "live event" \in err_lower \/ "premiere" \in err_lower THEN failed(YtDlpReasons.live)
        ELSE failed(YtDlpReasons.other)

\* Lines 407-415: extract_info raised anything else.
OnOtherException(hostname, files) ==
    IF is_tiktok_url(hostname) \/ is_instagram_url(hostname)
    THEN Outcome(TRUE, DownloadResult(FALSE, <<>>, "", TRUE), files)
    ELSE Outcome(FALSE,
             DownloadResult(FALSE, <<>>,
                 "An unexpected error occurred during download.", FALSE),
             files)

\* Lines 249-255: the call starts; without the yt_dlp library it returns at
\* once, else it draws its prefix and hands extract_info to the executor.
YtDlpStart(r) ==
    /\ fetch_pc[r] = "start"
    /\ \E yt_dlp \in BOOLEAN :
         IF yt_dlp
         THEN /\ \E n \in Prefixes : fetch_prefix' = [fetch_prefix EXCEPT ![r] = n]
              /\ fetch_pc' = [fetch_pc EXCEPT ![r] = "extract_info"]
              /\ UNCHANGED fetch_result
         ELSE /\ fetch_result' =
                    [fetch_result EXCEPT ![r] =
                        <<DownloadResult(FALSE, <<>>,
                              "yt-dlp library is not available.", FALSE)>>]
              /\ fetch_pc' = [fetch_pc EXCEPT ![r] = "done"]
              /\ UNCHANGED fetch_prefix
    /\ UNCHANGED <<handler_vars, send_vars, stats_vars, reddit_vars, fetch_host, fetch_signal, fetch_error,
                   tmp_files>>

\* Lines 306-429: extract_info is over.  It returned an info_dict, returned
\* None (line 310), or raised; the files it wrote are in the directory.  A
\* call that raises inside extract_info has no search pattern and leaves what
\* it wrote.
YtDlpExtracted(r) ==
    /\ fetch_pc[r] = "extract_info"
    /\ \E returned \in {"info_dict", "None", "DownloadError", "Exception"} :
       \E writes \in (IF returned = "info_dict" THEN YtDlpWrites ELSE {{}, {".part"}}) :
       \E err_lower \in (IF returned = "DownloadError" THEN ErrorMessages ELSE {{}}) :
         LET hostname == fetch_host[r]
             files == tmp_files \cup {YtDlpPath(fetch_prefix[r], ext) : ext \in writes}
             o == CASE returned = "info_dict" -> OnInfo(hostname, fetch_prefix[r], files)
                    [] returned = "None" ->
                         Outcome(TRUE, DownloadResult(FALSE, <<>>, "", TRUE), files)
                    [] returned = "DownloadError" ->
                         OnDownloadError(hostname, err_lower, files)
                    [] returned = "Exception" -> OnOtherException(hostname, files)
         IN  /\ tmp_files' = o.files
             /\ fetch_signal' = [fetch_signal EXCEPT ![r] = o.raised]
             /\ fetch_error' =
                    [fetch_error EXCEPT ![r] =
                        IF returned = "DownloadError" THEN <<err_lower>> ELSE <<>>]
             /\ fetch_result' =
                    [fetch_result EXCEPT ![r] = IF o.raised THEN <<>> ELSE <<o.result>>]
             /\ fetch_pc' =
                    [fetch_pc EXCEPT ![r] =
                        IF o.raised THEN "fallback"
                        ELSE IF o.result.success THEN "holding" ELSE "done"]
    /\ UNCHANGED <<handler_vars, send_vars, stats_vars, reddit_vars, fetch_host, fetch_prefix>>

\* download_gallery_dl.  The files gallery-dl leaves in its scratch
\* directory, in the order of temp_dir.glob('*.*'): images named by their
\* number, a sound track or two, a clip, a metadata file (--write-metadata),
\* a file of no supported type.
TempImage(i) == MkPath(<<N(i)>>, IF i % 2 = 1 THEN ".jpg" ELSE ".png")
\* Image files that gallery-dl names otherwise: cover.png among numbered
\* files, and img7.jpg, img3.jpg (digits behind letters).
NamedImageLists ==
    {<<MkPath(<<W("cover")>>, ".png"), MkPath(<<N(2)>>, ".jpg"),
       MkPath(<<N(10)>>, ".jpg"), MkPath(<<N(1)>>, ".jpg")>>,
     <<MkPath(<<W("img"), N(7)>>, ".jpg"), MkPath(<<W("img"), N(3)>>, ".jpg")>>}
TempFileLists ==
    {[i \in 1..k |-> TempImage(k + 1 - i)] \o extras :
        k \in 0..MaxImages,
        extras \in {<<>>,
                    <<MkPath(<<W("sound")>>, ".mp3")>>,
                    <<MkPath(<<W("sound")>>, ".mp3"), MkPath(<<W("voice")>>, ".ogg")>>,
                    <<MkPath(<<W("clip")>>, ".mp4")>>,
                    <<MkPath(<<W("clip")>>, ".mp4"), MkPath(<<W("sound")>>, ".mp3")>>,
                    <<MkPath(<<N(1), W(".jpg")>>, ".json")>>,
                    <<MkPath(<<W("notes")>>, ".txt")>>}}
      \cup (IF OneRun THEN NamedImageLists ELSE {})

\* Lines 155-162: f"{unique_prefix}_{original_stem}{suffix}", then
\* f"{unique_prefix}_{original_stem}_{count}{suffix}" while the path exists.
GdlCandidate(n, temp_file, count) ==
    MkPath(<<W("media_dl_gdl"), Sep, N(n), Sep>> \o temp_file.stem
             \o (IF count = 0 THEN <<>> ELSE <<Sep, N(count)>>), temp_file.ext)
GdlDest(n, temp_file, files) ==
    GdlCandidate(n, temp_file,
        FirstFree({k \in 0..Cardinality(files) : GdlCandidate(n, temp_file, k) \in files}))

\* Lines 44-65: the downloader's own extract_filename_index.  The stem is
\* digits with at most a separator behind them, or ends in a separator and
\* digits; else 999999.
DOWNLOADER_NO_INDEX == 999999
downloader_extract_filename_index(p) ==
    LET stem == p.stem
        n == Len(stem)
    IN  IF n = 1 /\ IsDigits(stem[1]) THEN stem[1].v
        ELSE IF n = 2 /\ IsDigits(stem[1]) /\ stem[2] \in Separators THEN stem[1].v
        ELSE IF n >= 2 /\ IsDigits(stem[n]) /\ stem[n - 1] \in Separators THEN stem[n].v
        ELSE DOWNLOADER_NO_INDEX

\* found_images.sort(key=extract_filename_index): a stable insertion sort.
RECURSIVE InsertImage(_, _)
InsertImage(sorted, f) ==
    IF sorted = <<>> THEN <<f>>
    ELSE IF downloader_extract_filename_index(f)
              < downloader_extract_filename_index(Head(sorted))
         THEN <<f>> \o sorted
         ELSE <<Head(sorted)>> \o InsertImage(Tail(sorted), f)
RECURSIVE SortedImages(_)
SortedImages(files) ==
    IF files = <<>> THEN <<>>
    ELSE InsertImage(SortedImages(SubSeq(files, 1, Len(files) - 1)), files[Len(files)])

\* Lines 147-184: each scratch file but the metadata is moved to its free
\* path and classified; a second audio file and a file of no supported type
\* are deleted again, a file whose move fails is skipped.
RECURSIVE MoveFiles(_, _, _, _)
MoveFiles(temp_files, n, unmovable, m) ==
    IF temp_files = <<>> THEN m
    ELSE LET temp_file == Head(temp_files)
             dest_path == GdlDest(n, temp_file, m.files)
             moved ==
                 IF temp_file.ext = ".json" \/ temp_file \in unmovable THEN m
                 ELSE IF dest_path.ext \in SUPPORTED_IMAGE_EXTENSIONS
                 THEN [m EXCEPT !.files = @ \cup {dest_path},
                                !.found_images = Append(@, dest_path)]
                 ELSE IF dest_path.ext \in SUPPORTED_AUDIO_EXTENSIONS
                 THEN IF m.found_audio # <<>> THEN m
                      ELSE [m EXCEPT !.files = @ \cup {dest_path},
                                     !.found_audio = <<dest_path>>]
                 ELSE IF dest_path.ext \in VideoLikeExtensions
                 THEN [m EXCEPT !.files = @ \cup {dest_path},
                                !.found_videos = Append(@, dest_path)]
                 ELSE m
         IN  MoveFiles(Tail(temp_files), n, unmovable, moved)

\* The phrases lines 137 and 213-221 look for in gallery-dl's stderr.
GalleryStderrs ==
    {{}, {"warning"}, {"nothing to download"}, {"404 not found"}, {"unavailable"},
     {"login required"}, {"authentication required"}, {"private"},
     {"age restricted"}, {"no supported extractor found"},
     {"private", "login required"}}

\* Lines 132-206: gallery-dl exited with code 0.
OnGalleryExit(n, temp_files, unmovable, err_lower, files) ==
    LET failed(reason) == DownloadResult(FALSE, <<>>, reason, TRUE)
        m == MoveFiles(temp_files, n, unmovable,
                 [files |-> files, found_images |-> <<>>, found_audio |-> <<>>,
                  found_videos |-> <<>>])
        moved_files_for_result ==
            (IF Len(m.found_images) > 1 THEN SortedImages(m.found_images)
             ELSE m.found_images) \o m.found_videos \o m.found_audio
    IN  IF temp_files = <<>>
        THEN [result |->
                 IF "warning" \in err_lower \/ "nothing to download" \in err_lower
                 THEN failed("Gallery/Slideshow: No new media found or already downloaded.")
                 ELSE failed("Slideshow download succeeded technically but found no media files."),
              moved |-> <<>>, files |-> files]
        ELSE IF moved_files_for_result = <<>>
        THEN [result |-> failed("Slideshow download resulted in no usable media files."),
              moved |-> <<>>, files |-> m.files]
        ELSE [result |-> DownloadResult(TRUE, moved_files_for_result, "", TRUE),
              moved |-> moved_files_for_result, files |-> m.files]

\* Lines 209-225: gallery-dl exited with another code.
OnGalleryFailure(err_lower, files) ==
    LET failed(reason) ==
            [result |-> DownloadResult(FALSE, <<>>, reason, TRUE),
             moved |-> <<>>, files |-> files]
    IN  IF "404 not found" \in err_lower \/ "unavailable" \in err_lower
        THEN failed("Slideshow/Gallery not found or unavailable (404).")
        ELSE IF "login required" \in err_lower \/ "authentication required" \in err_lower
        THEN failed("Slideshow/Gallery requires login.")
        ELSE IF "private" \in err_lower THEN failed("Content is private.")
        ELSE IF "age restricted" \in err_lower
        THEN failed("Content is age-restricted (and login failed/not provided).")
        ELSE IF "no supported extractor found" \in err_lower
        THEN failed("URL is not supported by gallery-dl.")
        ELSE failed("Failed to download slideshow/gallery (...)")

\* Lines 231-237: an exception on the way out of the with block (the scratch
\* directory cannot be removed) is caught; the reason is set and the moved
\* files are deleted.  Nothing else of the result is touched.
OnGalleryException(o) ==
    [result |-> [o.result EXCEPT !.error_message = GALLERY_UNEXPECTED],
     moved |-> o.moved, files |-> o.files \ Range(o.moved)]

\* Lines 75-76: the gallery call starts after the signal and draws its prefix.
GalleryDlStart(r) ==
    /\ fetch_pc[r] = "fallback"
    /\ \E n \in Prefixes : fetch_prefix' = [fetch_prefix EXCEPT ![r] = n]
    /\ fetch_pc' = [fetch_pc EXCEPT ![r] = "communicate"]
    /\ fetch_error' = [fetch_error EXCEPT ![r] = <<>>]
    /\ UNCHANGED <<handler_vars, send_vars, stats_vars, reddit_vars, fetch_host, fetch_result, fetch_signal,
                   tmp_files>>

\* Lines 120-240: the gallery-dl process could not be started (line 228), or
\* it exited.
GalleryDlExited(r) ==
    /\ fetch_pc[r] = "communicate"
    /\ \E installed \in BOOLEAN :
       \E returncode \in (IF installed THEN {0, 1} ELSE {1}) :
       \E temp_files \in (IF installed /\ returncode = 0 THEN TempFileLists ELSE {<<>>}) :
       \E unmovable \in {{}} \cup (IF OneRun THEN {{temp_files[i]} : i \in 1..Len(temp_files)}
                                   ELSE {}) :
       \E err_lower \in (IF installed /\ temp_files = <<>> /\ OneRun THEN GalleryStderrs
                         ELSE {{}}) :
       \E leaving_raises \in (IF installed THEN BOOLEAN ELSE {FALSE}) :
         LET body == IF ~installed
                     THEN [result |->
                              DownloadResult(FALSE, <<>>,
                                  "Slideshow/Gallery downloader (gallery-dl) not installed or configured correctly.",
                                  TRUE),
                           moved |-> <<>>, files |-> tmp_files]
                     ELSE IF returncode = 0
                     THEN OnGalleryExit(fetch_prefix[r], temp_files, unmovable,
                                        err_lower, tmp_files)
                     ELSE OnGalleryFailure(err_lower, tmp_files)
             o == IF leaving_raises THEN OnGalleryException(body) ELSE body
         IN  /\ tmp_files' = o.files
             /\ fetch_result' = [fetch_result EXCEPT ![r] = <<o.result>>]
             /\ fetch_pc' =
                    [fetch_pc EXCEPT ![r] = IF o.result.success THEN "holding" ELSE "done"]
    /\ UNCHANGED <<handler_vars, send_vars, stats_vars, reddit_vars, fetch_host, fetch_prefix, fetch_signal,
                   fetch_error>>

\* The run that holds a result delivers it and ends: _cleanup_media_files
\* unlinks the files of the result.
RunFinished(r) ==
    /\ fetch_pc[r] = "holding"
    /\ tmp_files' = tmp_files \ Range(fetch_result[r][1].media_files)
    /\ fetch_pc' = [fetch_pc EXCEPT ![r] = "done"]
    /\ UNCHANGED <<handler_vars, send_vars, stats_vars, reddit_vars, fetch_host, fetch_prefix, fetch_result,
                   fetch_signal, fetch_error>>

\* One run fetches; the directory may hold a file an earlier run left.
FetchInit ==
    /\ NoHandler
    /\ NoStats
    /\ NoReddit
    /\ NoSend
    /\ fetch_pc = <<"start">>
    /\ fetch_host \in {<<h>> : h \in Hostnames}
    /\ fetch_prefix = <<0>>
    /\ fetch_result = << <<>> >>
    /\ fetch_signal = <<FALSE>>
    /\ fetch_error = << <<>> >>
    /\ tmp_files \in {{}, {GdlCandidate(RandomPrefix, TempImage(1), 0)}}
\* Two runs fetch the same link at once, on a host of the fallback and on
\* another.
ConcurrentFetchInit ==
    /\ NoHandler
    /\ NoStats
    /\ NoReddit
    /\ NoSend
    /\ fetch_pc = <<"start", "start">>
    /\ fetch_host \in {<<h, h>> : h \in {"tiktok.com", "youtube.com"}}
    /\ fetch_prefix = <<0, 0>>
    /\ fetch_result = << <<>>, <<>> >>
    /\ fetch_signal = <<FALSE, FALSE>>
    /\ fetch_error = << <<>>, <<>> >>
    /\ tmp_files = {}

FetchNext ==
    \/ \E r \in Runs : YtDlpStart(r)
    \/ \E r \in Runs : YtDlpExtracted(r)
    \/ \E r \in Runs : GalleryDlStart(r)
    \/ \E r \in Runs : GalleryDlExited(r)
    \/ \E r \in Runs : RunFinished(r)

FetchSpec == FetchInit /\ [][FetchNext]_vars
ConcurrentFetchSpec == ConcurrentFetchInit /\ [][FetchNext]_vars

\* ------------------------------------------------- C13
\* The phrases of the error classes: private, login-required, age-restricted,
\* geo-restricted, copyright, oversize, not-found, livestream.
ClassPhrases ==
    [private |-> {"private video", "private account"},
     login |-> {"login required"},
     age |-> {"age restricted"},
     geo |-> {"geo-restricted", "unavailable in your country"},
     copyright |-> {"copyright"},
     oversize |-> {"max_filesize"},
     notfound |-> {"404 not found", "unable to download webpage"},
     live |-> {"live event", "premiere"}]
TerminalPhrases == UNION {ClassPhrases[c] : c \in DOMAIN ClassPhrases}
\* The phrases of the 'not a video / story / photo' class.
NonVideoPhrases ==
    {"unsupported url", "no supported formats found", "not a video",
     "are you sure this is a video url?", "story", "photo", "image",
     "graphql error", "this post contains no media"}
\* The phrases of access restrictions that send TikTok and Instagram links to
\* the fallback.
RestrictionMarkers == {"login required", "age restricted", "private content"}
ClassReason ==
    [c \in DOMAIN ClassPhrases |->
        IF c \in {"login", "age"} THEN YtDlpReasons.other ELSE YtDlpReasons[c]]
FallbackHost(r) ==
    fetch_host[r] \in {"tiktok.com", "vm.tiktok.com", "vt.tiktok.com", "instagram.com"}
\* Run r's yt-dlp call caught a DownloadError and has not been followed by
\* the gallery call yet.
Caught(r) == fetch_error[r] # <<>>
FailedWith(r) ==
    IF fetch_result[r] # <<>> /\ ~fetch_result[r][1].success
    THEN fetch_result[r][1].error_message ELSE ""

C13_WitnessTerminal ==
    \E r \in Runs :
        /\ fetch_host[r] = "instagram.com"
        /\ fetch_error[r] = <<{"private video"}>>
        /\ FailedWith(r) = YtDlpReasons.private

\* ------------------------------------------------- C17
FetchReturned(r) == fetch_result[r] # <<>>
\* C17: every DownloadResult a downloader returns has success only without an
\* error_message and only with a non-empty media_files, also when it is
\* returned after an exception was caught inside the downloader.
C17_SuccessMeansFilesAndNoError ==
    \A r \in Runs :
        (FetchReturned(r) /\ fetch_result[r][1].success)
            => /\ fetch_result[r][1].error_message = ""
               /\ fetch_result[r][1].media_files # <<>>
\* The half of C17 the code keeps: success only with a non-empty media_files.
C17_SuccessMeansFiles ==
    \A r \in Runs :
        (FetchReturned(r) /\ fetch_result[r][1].success)
            => fetch_result[r][1].media_files # <<>>
\* The gallery call returned success together with the reason of the caught
\* exception, and the files it names are gone.
C17_WitnessSuccessWithError ==
    \E r \in Runs :
        /\ FetchReturned(r)
        /\ fetch_result[r][1].success
        /\ fetch_result[r][1].error_message = GALLERY_UNEXPECTED
        /\ Range(fetch_result[r][1].media_files) \cap tmp_files = {}

\* ------------------------------------------------- C18
\* The paths run r was handed and has yet to deliver and clean up.
Held(r) ==
    IF fetch_pc[r] = "holding" THEN Range(fetch_result[r][1].media_files) ELSE {}
\* C18: whatever the random prefixes and the interleaving, no path is held by
\* two unfinished runs, and a file a run has yet to deliver is not deleted by
\* another run's cleanup.
C18_NoPathHeldTwice ==
    /\ \A r1, r2 \in Runs : r1 # r2 => Held(r1) \cap Held(r2) = {}
    /\ \A r \in Runs :
         (fetch_pc[r] = "holding" /\ fetch_result[r][1].error_message = "")
            => Held(r) \subseteq tmp_files
\* What the code keeps: two runs hold the same path only when both got it from
\* download_media_yt_dlp and drew the same number, or when one of them got it
\* from a gallery call that deleted it again (lines 231-237) and the gallery
\* call of the other, with the same number, moved a file there afterwards.
C18_OnlyEqualPrefixesCollide ==
    \A r1, r2 \in Runs :
        (r1 # r2 /\ Held(r1) \cap Held(r2) # {})
            => /\ fetch_prefix[r1] = fetch_prefix[r2]
               /\ fetch_result[r1][1].is_slideshow = fetch_result[r2][1].is_slideshow
               /\ fetch_result[r1][1].is_slideshow
                    => \/ fetch_result[r1][1].error_message = GALLERY_UNEXPECTED
                       \/ fetch_result[r2][1].error_message = GALLERY_UNEXPECTED
\* Two runs hold the same yt-dlp file.
C18_WitnessHeldTwice ==
    \E r1, r2 \in Runs : r1 # r2 /\ Held(r1) \cap Held(r2) # {}
\* One run has finished and deleted the file the other still holds.
C18_WitnessDeletedUnderRun ==
    \E r1, r2 \in Runs :
        /\ fetch_pc[r1] = "done"
        /\ fetch_pc[r2] = "holding"
        /\ fetch_result[r2][1].error_message = ""
        /\ ~(Held(r2) \subseteq tmp_files)
\* Two gallery calls with the same number moved the same file names and hold
\* different paths.
C18_WitnessGalleryPathsDiffer ==
    \E r1, r2 \in Runs :
        /\ r1 # r2
        /\ fetch_pc[r1] = "holding" /\ fetch_pc[r2] = "holding"
        /\ fetch_result[r1][1].is_slideshow /\ fetch_result[r2][1].is_slideshow
        /\ fetch_prefix[r1] = fetch_prefix[r2]
        /\ Len(fetch_result[r1][1].media_files) = Len(fetch_result[r2][1].media_files)

\* ------------------------------------------------- utils/telegram_helpers.py
\* send_downloaded_media, one call, await by await.  send_pc is "start", the
\* send the call is awaiting ("send_media_group", "send_photo", "send_video",
\* "send_audio") or "returned".
\* How many images the file list holds at most: one more than a group takes.
MaxPhotos == 11
\* media_files: images in falling order of their index, then at most two
\* videos, then at most one audio file.
SendFileLists ==
    {[i \in 1..k |-> GdlImage(k + 1 - i)] \o v \o a :
        k \in 0..MaxPhotos, v \in {<<>>, <<GdlVideo>>, <<YtMerged, GdlVideo>>},
        a \in {<<>>, <<GdlAudio>>}}
\* The files of the list that may be gone when the call runs.
Perishable == {GdlImage(1), GdlImage(2), GdlVideo, GdlAudio}

\* Lines 115-120.
images == SortedByIndex(FilterExt(send_files, SUPPORTED_IMAGE_EXTENSIONS))
videos == FilterExt(send_files, SUPPORTED_VIDEO_EXTENSIONS)
audios == FilterExt(send_files, SUPPORTED_AUDIO_EXTENSIONS)
InputMedia(media, caption) == [media |-> media, caption |-> caption]
\* Line 140.
images_to_send == SubSeq(images, 1, IF Len(images) > 10 THEN 10 ELSE Len(images))
\* Lines 147-165: an item for every image that exists, the caption on the
\* image at index 0.
media_group_items ==
    SelectSeq([i \in 1..Len(images_to_send) |->
                  InputMedia(images_to_send[i], IF i = 1 THEN base_caption ELSE <<>>)],
              LAMBDA item : item.media \in send_disk)

\* Lines 232-239: the audio step starts; what the call does next.
AudioStep == IF audios # <<>> /\ audios[1] \in send_disk THEN "send_audio" ELSE "return"
\* Lines 205-211: the video step starts.
VideoStep == IF videos # <<>> /\ videos[1] \in send_disk THEN "send_video" ELSE AudioStep
\* The call goes on to its next send, or returns sent_something (line 284).
Proceed(step, sent) ==
    IF step = "return"
    THEN send_pc' = "returned" /\ send_result' = <<sent>>
    ELSE send_pc' = step /\ UNCHANGED send_result
\* Lines 254-279: the send raised; every handler returns False.
SendRaised == send_pc' = "returned" /\ send_result' = <<FALSE>>

\* Lines 109-170, 186-193: up to the first send.
SendStart ==
    /\ send_pc = "start"
    /\ IF send_files = <<>>
       THEN /\ send_pc' = "returned"
            /\ send_result' = <<FALSE>>
            /\ UNCHANGED media_group_caption_used
       ELSE IF Len(images) > 1
       THEN /\ media_group_caption_used' =
                   \E i \in 1..Len(media_group_items) : media_group_items[i].caption # <<>>
            /\ Proceed(IF media_group_items # <<>> THEN "send_media_group" ELSE VideoStep,
                       FALSE)
       ELSE /\ UNCHANGED media_group_caption_used
            /\ Proceed(IF Len(images) = 1 /\ images[1] \in send_disk
                       THEN "send_photo" ELSE VideoStep, FALSE)
    /\ UNCHANGED <<handler_vars, fetch_vars, stats_vars, reddit_vars, send_files, send_disk, base_caption,
                   sent_something, sent_items>>

\* Lines 170-178: send_media_group returned or raised; Telegram refuses a
\* group of fewer than two items.
SendMediaGroupReturn ==
    /\ send_pc = "send_media_group"
    /\ \E raises \in (IF Len(media_group_items) < 2 THEN {TRUE} ELSE BOOLEAN) :
         IF raises
         THEN SendRaised /\ UNCHANGED <<sent_something, sent_items>>
         ELSE /\ sent_items' =
                    Append(sent_items,
                           [method |-> "send_media_group", media |-> media_group_items])
              /\ sent_something' = TRUE
              /\ Proceed(VideoStep, TRUE)
    /\ UNCHANGED <<handler_vars, fetch_vars, stats_vars, reddit_vars, send_files, send_disk, base_caption,
                   media_group_caption_used>>

\* Lines 193-203: send_photo returned or raised.
SendPhotoReturn ==
    /\ send_pc = "send_photo"
    /\ \E raises \in BOOLEAN :
         IF raises
         THEN SendRaised /\ UNCHANGED <<sent_something, sent_items>>
         ELSE /\ sent_items' =
                    Append(sent_items,
                           [method |-> "send_photo",
                            media |-> <<InputMedia(images[1], base_caption)>>])
              /\ sent_something' = TRUE
              /\ Proceed(VideoStep, TRUE)
    /\ UNCHANGED <<handler_vars, fetch_vars, stats_vars, reddit_vars, send_files, send_disk, base_caption,
                   media_group_caption_used>>

\* Lines 213-230: send_video returned or raised.
SendVideoReturn ==
    /\ send_pc = "send_video"
    /\ \E raises \in BOOLEAN :
         IF raises
         THEN SendRaised /\ UNCHANGED <<sent_something, sent_items>>
         ELSE LET video_caption ==
                      IF ~(sent_something \/ media_group_caption_used)
                      THEN base_caption ELSE <<>>
              IN  /\ sent_items' =
                         Append(sent_items,
                                [method |-> "send_video",
                                 media |-> <<InputMedia(videos[1], video_caption)>>])
                  /\ sent_something' = TRUE
                  /\ Proceed(AudioStep, TRUE)
    /\ UNCHANGED <<handler_vars, fetch_vars, stats_vars, reddit_vars, send_files, send_disk, base_caption,
                   media_group_caption_used>>

\* Lines 240-252, 281-284: send_audio returned or raised.
SendAudioReturn ==
    /\ send_pc = "send_audio"
    /\ \E raises \in BOOLEAN :
         IF raises
         THEN SendRaised /\ UNCHANGED <<sent_something, sent_items>>
         ELSE LET audio_caption ==
                      IF ~(sent_something \/ media_group_caption_used)
                      THEN base_caption ELSE <<>>
              IN  /\ sent_items' =
                         Append(sent_items,
                                [method |-> "send_audio",
                                 media |-> <<InputMedia(audios[1], audio_caption)>>])
                  /\ sent_something' = TRUE
                  /\ Proceed("return", TRUE)
    /\ UNCHANGED <<handler_vars, fetch_vars, stats_vars, reddit_vars, send_files, send_disk, base_caption,
                   media_group_caption_used>>

\* A call of send_downloaded_media: the file list, the files that exist, the
\* caption (<<>> is None).
SendInit ==
    /\ NoHandler
    /\ NoStats
    /\ NoReddit
    /\ NoFetch
    /\ send_pc = "start"
    /\ send_files \in SendFileLists
    /\ \E missing \in SUBSET Perishable : send_disk = Range(send_files) \ missing
    /\ base_caption \in {<<"caption">>, <<>>}
    /\ sent_something = FALSE
    /\ media_group_caption_used = FALSE
    /\ sent_items = <<>>
    /\ send_result = <<>>

SendNext ==
    \/ SendStart
    \/ SendMediaGroupReturn
    \/ SendPhotoReturn
    \/ SendVideoReturn
    \/ SendAudioReturn

SendSpec == SendInit /\ [][SendNext]_vars

\* ------------------------------------------------- C19
\* C19: for every combination of send outcomes, send_downloaded_media returns
\* True exactly when at least one item (the photo group, the single photo, the
\* first video or the first audio file) was sent.
C19_TrueIffSomethingSent ==
    send_result # <<>> => (send_result[1] <=> sent_items # <<>>)
\* The half of C19 the code keeps: it returns True only when an item was sent.
C19_TrueOnlyIfSomethingSent ==
    send_result # <<>> => (send_result[1] => sent_items # <<>>)
\* The call sent the photo group, the video send raised, and it returned False.
C19_WitnessFalseAfterSend ==
    /\ send_result = <<FALSE>>
    /\ Len(sent_items) = 1
    /\ sent_items[1].method = "send_media_group"
    /\ videos # <<>> /\ videos[1] \in send_disk

\* ------------------------------------------------- C20
\* The items Telegram received, in order: the photos of the group one by one.
RECURSIVE Flatten(_)
Flatten(items) ==
    IF items = <<>> THEN <<>> ELSE Head(items).media \o Flatten(Tail(items))
SentMedia == Flatten(sent_items)
Captioned == {i \in 1..Len(SentMedia) : SentMedia[i].caption # <<>>}
\* C20: with a non-empty caption, at most one sent item carries the caption,
\* the first item sent carries it whenever an item is sent, and a photo group
\* holds at most 10 items.
C20_FirstSentItemCarriesCaption ==
    base_caption # <<>> =>
        /\ Cardinality(Captioned) <= 1
        /\ SentMedia # <<>> => SentMedia[1].caption = base_caption
        /\ \A i \in 1..Len(sent_items) : Len(sent_items[i].media) <= 10
\* The parts of C20 the code keeps: at most one item carries the caption, it
\* is the first item sent if any, a group holds at most 10 items, and the
\* first item sent carries the caption unless it is a group's photo other than
\* the first image of the list.
C20_AtMostTheFirstItemCarriesCaption ==
    base_caption # <<>> =>
        /\ Captioned \subseteq {1}
        /\ \A i \in 1..Len(sent_items) : Len(sent_items[i].media) <= 10
        /\ (SentMedia # <<>>
              /\ ~(sent_items[1].method = "send_media_group"
                     /\ SentMedia[1].media # images[1]))
             => SentMedia[1].caption = base_caption
\* A group was sent without its first image, which is gone, and nothing
\* carries the caption.
C20_WitnessNoCaption ==
    /\ base_caption # <<>>
    /\ send_pc = "returned"
    /\ Len(images) > 10
    /\ images[1] \notin send_disk
    /\ Len(sent_items) = 3
    /\ Captioned = {}

\* Every text the run has shown to the user: what the status message
\* holds, and the text of every edit and of every new message.
ShownTexts ==
    {status.text}
      \cup {calls[i].text : i \in Calls("edit_text") \cup Calls("edit_final")
                                    \cup Calls("send_message")}
SignalRaised == "NonVideoContentError" \in raised
\* The failure texts of a run whose primary fetch raised the signal: the
\* secondary fetch's, the delivery step's and the generic one.
AfterSignalTexts ==
    {<<CROSS, e>> : e \in GalleryErrors \cup {"Failed alternative download."}}
      \cup {TooLarge, NotSent, UnexpectedError}

\* C21: in a run whose primary fetch raised NonVideoContentError no text shown
\* to the user (status edit, final failure text, new message) holds the
\* signal's error text, and the failure text, if there is one, is the
\* secondary fetch's, the delivery step's or the generic exception text.
C21_SignalNeverShown ==
    SignalRaised =>
        /\ \A t \in ShownTexts : \A i \in DOMAIN t : t[i] \notin NonVideoContentTexts
        /\ final_status_message # <<>> => final_status_message \in AfterSignalTexts
\* A run that the signal sent to the secondary fetch has reported that
\* fetch's failure in the status message.
C21_Witness ==
    /\ Returned /\ SignalRaised
    /\ final_status_message = <<CROSS, "Content is private.">>
    /\ status.text = StatusUpdateText(final_status_message)
    /\ TRYING \in {calls[i].text[1] : i \in Calls("edit_text")}

\* The secondary fetch has returned a result without success.
SecondaryFailed ==
    /\ SecondaryFetches # {} /\ pc # "gallery"
    /\ download_result # <<>> /\ ~download_result[1].success
TranscodeOrDelivery ==
    Calls("get_audio_duration") \cup Calls("create_slideshow_video")
      \cup Calls("process_video_for_telegram") \cup Calls("send_downloaded_media")

\* C22: after a secondary fetch without success the failure text is that
\* fetch's error message, or "Failed alternative download." when it has none;
\* the composer, the optimizer and the delivery are never called, and the run
\* that returns has Failed.
C22_SecondaryFailureEndsRun ==
    SecondaryFailed =>
        /\ final_status_message =
             <<CROSS, IF download_result[1].error_message # ""
                      THEN download_result[1].error_message
                      ELSE "Failed alternative download.">>
        /\ TranscodeOrDelivery = {}
        /\ ~media_sent
        /\ Returned => Failed
\* A secondary fetch failed without a reason, and the run has returned with
\* the default text written to the status message.
C22_Witness ==
    /\ Returned /\ SecondaryFailed
    /\ download_result[1].error_message = ""
    /\ status.text = StatusUpdateText(<<CROSS, "Failed alternative download.">>)
\* A secondary fetch failed with its reason, which the run has reported.
C22_WitnessReason ==
    /\ Returned /\ SecondaryFailed
    /\ status.text = StatusUpdateText(<<CROSS, "Content is private.">>)

OptimizerCalls == Calls("process_video_for_telegram")
\* The first file of the set that has a video's extension.
FirstVideo(files) ==
    files[CHOOSE k \in DOMAIN files :
            /\ files[k].ext \in VideoLikeExtensions
            /\ \A j \in 1..(k - 1) : files[j].ext \notin VideoLikeExtensions]
\* The optimizer has been called and has not returned yet.
C23_AtOptimizer ==
    pc = "optimize" =>
        /\ final_status_message = <<>>
        /\ FFMPEG_AVAILABLE
        /\ download_result # <<>> /\ download_result[1].success
        /\ \E k \in DOMAIN download_result[1].media_files :
              download_result[1].media_files[k].ext \in VideoLikeExtensions
        /\ calls[Len(calls)].op = "process_video_for_telegram"
        /\ calls[Len(calls)].files[1] = FirstVideo(download_result[1].media_files)
C23_OptimizerOnce ==
    /\ Cardinality(OptimizerCalls) <= 1
    /\ OptimizerCalls # {} /\ pc # "optimize" =>
          "optimize" \in raised \/ SENDING \in {calls[i].text[1] : i \in Calls("edit_text")}
                                \/ current_status_text = <<SENDING>>
\* The optimizer returns, True or False: the switch to the sending phase
\* begins and no failure text is set.
C23_OptimizerReturns ==
    pc = "optimize" /\ pc' # "optimize" /\ "optimize" \notin raised' =>
        /\ current_status_text' = <<SENDING>>
        /\ pc' \in {"switch_wait", "switch_edit"}
        /\ final_status_message' = <<>>

\* C23: process_video_for_telegram is called at most once in a run, and only
\* with no failure text recorded, a video in the current file set and the
\* transcoder flag true; it is given the first video of that set; and when it
\* returns, with True or with False, the run goes on to the sending phase.
C23_OptimizerOnceThenSending ==
    [](C23_AtOptimizer /\ C23_OptimizerOnce) /\ [][C23_OptimizerReturns]_vars
\* The optimizer failed on the video that followed an image in the fetched
\* set, and the run delivered.
C23_Witness ==
    /\ Delivered /\ "optimize" \in failures
    /\ \E i \in OptimizerCalls : calls[i].files[1] = GdlVideo
    /\ download_result[1].media_files[1] = GdlImage(1)

\* ------------------------------------------------- config.FFMPEG_AVAILABLE, shared
\* Another run of process_link, interleaved at an await of this one: a
\* transcode step of it finds no ffmpeg and clears config.FFMPEG_AVAILABLE
\* (services/media_processing.py 139, 256, 402).  Nothing else of this run
\* is within its reach.
ClearedElsewhere ==
    /\ pc \notin {"idle", "done"}
    /\ FFMPEG_AVAILABLE
    /\ FFMPEG_AVAILABLE' = FALSE
    /\ UNCHANGED <<chat, pc, processing_msg, stop_event, loading_task, tasks,
                   download_result, all_files_to_cleanup, final_status_message,
                   media_sent, current_status_text, out_path, audio_duration,
                   status, disk, produced, calls, propagated, raised, failures,
                   launched, outcomes, send_error, fetchers, send_vars, fetch_vars, stats_vars, reddit_vars>>
SharedFlagNext == Next \/ ClearedElsewhere
\* bot.py 116: the startup check found ffmpeg and set the flag.  The run
\* followed is one of handle_private_link.
SharedFlagInit == Init /\ FFMPEG_AVAILABLE /\ chat = "private"
SharedFlagSpec == SharedFlagInit /\ [][SharedFlagNext]_vars
FairSharedFlagSpec ==
    SharedFlagSpec /\ WF_vars(ProcessLink) /\ WF_vars(WaitForTimeout) /\ WF_vars(Animation)

\* No step sets the flag, and a set flag is what every launch has seen.
C24_FlagOnlyCleared ==
    /\ FFMPEG_AVAILABLE' => FFMPEG_AVAILABLE
    /\ launched' # launched => FFMPEG_AVAILABLE /\ FFMPEG_AVAILABLE'
\* A transcode step that was called and did not launch leaves the file set
\* as it was, and a probe that did not launch is followed by no composer.
C24_RefusedStepKeepsFiles ==
    pc \in {"probe", "compose", "optimize"} /\ pc \notin launched /\ pc' # pc =>
        /\ download_result' = download_result
        /\ pc' # "compose"
C24_Ends == Returned /\ StatusCreated => Delivered \/ Failed

\* C24: with other runs clearing config.FFMPEG_AVAILABLE at any await of a
\* run, the flag is never set back to true, no transcode step starts ffmpeg or
\* ffprobe while the flag is false, a step that finds the flag cleared leaves
\* the file set untransformed, and the run returns, Delivered or Failed when
\* it made its status message.
C24_SharedFlagIsSafe ==
    /\ [][C24_FlagOnlyCleared /\ C24_RefusedStepKeepsFiles]_vars
    /\ []C24_Ends
    /\ <>Returned
\* The flag was cleared during the switch to the optimizing phase: the
\* optimizer was called, started nothing, and the fetched video was delivered.
C24_Witness ==
    /\ Delivered /\ ~FFMPEG_AVAILABLE
    /\ OptimizerCalls # {} /\ "optimize" \notin launched
    /\ DeliveredFiles = {<<YtMerged>>}
\* The flag was cleared while ffmpeg was composing: the composer succeeded
\* and its video was delivered without the optimizer.
C24_WitnessDuringCompose ==
    /\ Delivered /\ ~FFMPEG_AVAILABLE
    /\ "compose" \in launched /\ "compose" \notin failures
    /\ OptimizerCalls = {}

\* ------------------------------------------------- create_slideshow_video: the list
\* Line 184 and the format of line 199: max(0.001, duration_secs / num_images)
\* written with five decimals, here in units of 0.00001 s from a duration in
\* tenths of a second.
duration_per_image(duration_secs, num_images) ==
    LET exact == (2 * duration_secs * 10000 + num_images) \div (2 * num_images)
    IN  IF exact > 100 THEN exact ELSE 100
FileEntry(path) == [directive |-> "file", path |-> <<path>>, value |-> 0]
DurationEntry(value) == [directive |-> "duration", path |-> <<>>, value |-> value]
\* Lines 194-202: the lines written after the ffconcat header.  The loop body
\* writes the image, its duration, and (lines 200-202, inside the loop) the
\* last image.
RECURSIVE ConcatEntries(_, _, _)
ConcatEntries(image_paths, rest, d) ==
    IF rest = <<>> THEN <<>>
    ELSE <<FileEntry(Head(rest)), DurationEntry(d),
           FileEntry(image_paths[Len(image_paths)])>>
           \o ConcatEntries(image_paths, Tail(rest), d)
ConcatList(image_paths, duration_secs) ==
    ConcatEntries(image_paths, image_paths,
                  duration_per_image(duration_secs, Len(image_paths)))

\* The list the claim describes: every image with its duration, in order,
\* then the last image once more.
RECURSIVE WithDurations(_, _)
WithDurations(image_paths, d) ==
    IF image_paths = <<>> THEN <<>>
    ELSE <<FileEntry(Head(image_paths)), DurationEntry(d)>>
           \o WithDurations(Tail(image_paths), d)
FileEntries(list) == SelectSeq(list, LAMBDA e : e.directive = "file")
DurationEntries(list) == SelectSeq(list, LAMBDA e : e.directive = "duration")
\* The lists that the composer calls of the run have written.
ConcatListsWritten ==
    {[images |-> calls[i].files, list |-> ConcatList(calls[i].files, audio_duration[1])] :
        i \in {j \in Calls("create_slideshow_video") : "compose" \in launched}}

\* C25: the concatenation list that create_slideshow_video writes for N >= 1
\* images holds every image once with its duration, in input order, and then
\* the last image once more without a duration: N + 1 file entries, N
\* duration entries, the last image listed exactly twice.
C25_LastImageRepeatedOnce ==
    \A w \in ConcatListsWritten :
        LET n == Len(w.images)
            last == w.images[n]
        IN  /\ w.list = WithDurations(w.images, w.list[2].value) \o <<FileEntry(last)>>
            /\ Len(FileEntries(w.list)) = n + 1
            /\ Len(DurationEntries(w.list)) = n
            /\ Len(SelectSeq(FileEntries(w.list), LAMBDA e : e.path = <<last>>)) = 2
\* What the loop writes: the last image follows every duration, so that the
\* list has 2N file entries and names the last image N + 1 times.
C25_LastImageAfterEveryDuration ==
    \A w \in ConcatListsWritten :
        LET n == Len(w.images)
            last == w.images[n]
        IN  /\ Len(w.list) = 3 * n
            /\ \A k \in 1..n :
                  /\ w.list[3 * k - 2] = FileEntry(w.images[k])
                  /\ w.list[3 * k - 1].directive = "duration"
                  /\ w.list[3 * k - 1].value >= 100
                  /\ w.list[3 * k] = FileEntry(last)
            /\ Len(FileEntries(w.list)) = 2 * n
            /\ Len(DurationEntries(w.list)) = n
            /\ Len(SelectSeq(FileEntries(w.list), LAMBDA e : e.path = <<last>>)) = n + 1
\* A list for two images was written.
C25_TwoImages == \E w \in ConcatListsWritten : Len(w.images) = 2

\* ------------------------------------------------- C26
\* The images of a result in the order the gallery downloader gave them.
AsFetched(files) == FilterExt(files, SUPPORTED_IMAGE_EXTENSIONS)
\* The results that the fetches have returned with files.
FetchedResults ==
    {fetch_result[r][1] : r \in {q \in Runs : FetchReturned(q) /\ fetch_result[q][1].success}}
\* The name a scratch file had, from its path in the temporary directory:
\* the stem without media_dl_gdl_<n>_.
OriginalStem(p) == SubSeq(p.stem, 5, Len(p.stem))
IndexExamples ==
    /\ extract_filename_index(MkPath(<<N(3)>>, ".jpg")) = 3
    /\ extract_filename_index(MkPath(<<W("img"), Sep, N(7)>>, ".png")) = 7
    /\ extract_filename_index(MkPath(<<W("cover")>>, ".png")) = NO_INDEX
\* The fetch of cover.png, 2.jpg, 10.jpg, 1.jpg returns 1, 2, 10, cover.
SortExample(files) ==
    {OriginalStem(f) : f \in Range(files)} = {<<W("cover")>>, <<N(2)>>, <<N(10)>>, <<N(1)>>}
        /\ Len(files) = 4 =>
            [i \in 1..4 |-> OriginalStem(files[i])] = <<<<N(1)>>, <<N(2)>>, <<N(10)>>, <<W("cover")>>>>

\* C26: extract_filename_index gives the digits after a separator at the end
\* of the stem, else the digits at its end, else any digits, else the value
\* that sorts last (3.jpg: 3, img_007.png: 7, cover.png: that value); the
\* sort is stable (cover.png, 2.jpg, 10.jpg, 1.jpg gives 1.jpg, 2.jpg, 10.jpg,
\* cover.png); and the order in which the gallery downloader returns the
\* images is the order the pipeline composes them in and the delivery sends
\* them in (both sorted(images, key=extract_filename_index), message_handlers.py
\* 128-131 and telegram_helpers.py 115-118).
C26_OneOrderEverywhere ==
    /\ IndexExamples
    /\ \A r \in FetchedResults :
          /\ SortExample(AsFetched(r.media_files))
          /\ Images(r.media_files) = AsFetched(r.media_files)
\* What holds: the examples, the downloader's order for the example, and the
\* agreement of the two orders for every file whose name the downloader's own
\* extract_filename_index finds a number in that is below the prefix's.
C26_OrdersAgreeOnNumberedNames ==
    /\ IndexExamples
    /\ \A r \in FetchedResults :
          /\ SortExample(AsFetched(r.media_files))
          /\ (\A f \in Range(AsFetched(r.media_files)) :
                 \/ downloader_extract_filename_index(f) < DOWNLOADER_NO_INDEX
                 \/ \A i \in DOMAIN OriginalStem(f) : ~IsDigits(OriginalStem(f)[i]))
               => Images(r.media_files) = AsFetched(r.media_files)
\* The downloader returned img7.jpg before img3.jpg, as it found them.
C26_SeenUnsorted ==
    \E r \in FetchedResults :
        [i \in 1..Len(r.media_files) |-> OriginalStem(r.media_files[i])]
            = <<<<W("img"), N(7)>>, <<W("img"), N(3)>>>>

\* ------------------------------------------------- C27
\* The results that download_gallery_dl has returned, by run.
GalleryReturned(r) == fetch_signal[r] /\ FetchReturned(r)
Usable == ALL_SUPPORTED_MEDIA_EXTENSIONS
\* Images, then videos, then at most one audio file.
InClassOrder(files) ==
    /\ files = FilterExt(files, SUPPORTED_IMAGE_EXTENSIONS)
                 \o FilterExt(files, SUPPORTED_VIDEO_EXTENSIONS)
                 \o FilterExt(files, SUPPORTED_AUDIO_EXTENSIONS)
    /\ Len(FilterExt(files, SUPPORTED_AUDIO_EXTENSIONS)) <= 1
ByDownloaderIndex(files) ==
    \A i, j \in DOMAIN files :
        i < j => downloader_extract_filename_index(files[i])
                    <= downloader_extract_filename_index(files[j])
ByIndex(files) ==
    \A i, j \in DOMAIN files :
        i < j => extract_filename_index(files[i]) <= extract_filename_index(files[j])

\* C27: download_gallery_dl reports success exactly when a usable media file
\* (image, video, audio) was moved and classified; the list it returns is the
\* images in index order, then the videos, then at most one audio file; and
\* every file of the list exists when it returns.
C27_GalleryResult ==
    \A r \in Runs :
        GalleryReturned(r) =>
            LET res == fetch_result[r][1]
            IN  /\ res.success <=> res.media_files # <<>>
                /\ \A f \in Range(res.media_files) : f.ext \in Usable
                /\ InClassOrder(res.media_files)
                /\ ByIndex(AsFetched(res.media_files))
                /\ fetch_pc[r] = "holding" => Range(res.media_files) \subseteq tmp_files
\* What holds: the same with the downloader's own index, and the existence of
\* the files of a result that carries no error_message.
C27_GalleryResultUnlessExceptionCaught ==
    \A r \in Runs :
        GalleryReturned(r) =>
            LET res == fetch_result[r][1]
            IN  /\ res.success <=> res.media_files # <<>>
                /\ \A f \in Range(res.media_files) : f.ext \in Usable
                /\ InClassOrder(res.media_files)
                /\ ByDownloaderIndex(AsFetched(res.media_files))
                /\ fetch_pc[r] = "holding" /\ res.error_message = ""
                       => Range(res.media_files) \subseteq tmp_files
\* The result of the exception path: success with two images and nothing left
\* of them in the directory.
C27_ReturnedFilesGone ==
    \E r \in Runs :
        /\ GalleryReturned(r) /\ fetch_pc[r] = "holding"
        /\ Len(fetch_result[r][1].media_files) = 2
        /\ ByIndex(fetch_result[r][1].media_files)
        /\ Range(fetch_result[r][1].media_files) \cap tmp_files = {}

\* ------------------------------------------------- C28
Tracked == Range(all_files_to_cleanup)
\* A fetch returns: its files are tracked in the same step.
C28_FetchedTracked ==
    pc \in {"yt_dlp", "gallery"} /\ download_result' # download_result =>
        Range(download_result'[1].media_files) \subseteq Range(all_files_to_cleanup')
\* The composer or the optimizer returns: the output path chosen for it is
\* tracked in the same step when the file exists.
C28_OutputTracked ==
    pc \in {"compose", "optimize"} /\ pc' # pc /\ pc \notin raised' /\ out_path[1] \in disk' =>
        out_path[1] \in Range(all_files_to_cleanup')
\* A tracked path stays tracked, whatever replaces the file set.
C28_TrackedForGood == Tracked \subseteq Range(all_files_to_cleanup')
\* At the end the tracked paths, and with them every file the run left in
\* the temporary directory, are handed to _cleanup_media_files.
C28_AllHandedOver ==
    pc \in {"cleanup", "done"} =>
        \E i \in Calls("_cleanup_media_files") :
            /\ Tracked \subseteq Range(calls[i].files)
            /\ disk \subseteq Range(calls[i].files)

\* C28: every path a fetch returned, and every output path of the composer or
\* the optimizer that exists when the step returns, is in the list handed to
\* _cleanup_media_files at the end of the run, the fetched files that a video
\* replaced and the outputs of failed steps among them.
C28_NoTransientFileLeaks ==
    /\ [][C28_FetchedTracked /\ C28_OutputTracked /\ C28_TrackedForGood]_vars
    /\ []C28_AllHandedOver
\* The optimizer failed and left its output; the list handed over holds it
\* beside the video it was to replace.
C28_Witness ==
    /\ Returned /\ "optimize" \in failures /\ out_path[1] \in disk
    /\ \E i \in Calls("_cleanup_media_files") :
          {out_path[1], YtMerged} \subseteq Range(calls[i].files)
\* The composer's video replaced the fetched images and audio, which are
\* handed over with it.
C28_WitnessReplaced ==
    /\ Returned /\ download_result # <<>>
    /\ download_result[1].media_files = <<GeneratedCandidate(GdlAudio, 0)>>
    /\ \E i \in Calls("_cleanup_media_files") :
          {GdlImage(1), GdlAudio, GeneratedCandidate(GdlAudio, 0)} \subseteq Range(calls[i].files)

\* ------------------------------------------------- C29
\* The failure text has been issued: the final edit or the new message.
FailureTextIssued == Calls("edit_final") \cup Calls("send_message") # {}
DeleteIssued == Calls("delete") # {}
C29_EitherDeleteOrFailureText ==
    /\ FailureTextIssued => ~media_sent
    /\ DeleteIssued => media_sent
    /\ ~(DeleteIssued /\ FailureTextIssued)

\* C29: no run produces both a delivery and a failure report.  The failure
\* text is issued only with media_sent false, the delete of the status message
\* only with media_sent true, never both, and media_sent once true stays
\* true; this also when an exception is raised after the delivery attempt.
C29_DeliveryOrFailureNeverBoth ==
    []C29_EitherDeleteOrFailureText /\ [][media_sent => media_sent']_vars
\* The delivery returned False and the size check that follows raised: the
\* generic failure text was issued and no delete.
C29_Witness ==
    /\ Returned /\ "stat" \in raised
    /\ FailureTextIssued /\ ~DeleteIssued
    /\ final_status_message = UnexpectedError
\* The delivery returned True: the delete was issued and no failure text.
C29_WitnessDelivered == Delivered /\ DeleteIssued /\ ~FailureTextIssued

\* ------------------------------------------------- C30
DeliveryCalls == Calls("send_downloaded_media")
\* The edit that announces the sending phase has been issued before call i.
SendingAnnouncedBefore(i) ==
    \E j \in Calls("edit_text") : j < i /\ calls[j].text = <<SENDING>>
\* The delivery has been called and has not returned yet.
C30_AtDelivery ==
    pc = "send" =>
        /\ current_status_text = <<SENDING>>
        /\ final_status_message = <<>>
        /\ download_result # <<>> /\ download_result[1].success
        /\ download_result[1].media_files # <<>>
        /\ calls[Len(calls)].op = "send_downloaded_media"
        /\ calls[Len(calls)].files = download_result[1].media_files

\* C30: send_downloaded_media is called at most once in a run, only after the
\* status phase was set to "Sending media...", only with no failure text
\* recorded, and only with the non-empty file list of a successful result.
C30_DeliveryOnceWithFiles ==
    /\ Cardinality(DeliveryCalls) <= 1
    /\ \A i \in DeliveryCalls : calls[i].files # <<>> /\ SendingAnnouncedBefore(i)
    /\ DeliveryCalls # {} => Calls("download_media_yt_dlp") # {}
    /\ C30_AtDelivery
\* The delivery is under way with the two files of the primary fetch, after
\* the optimizer failed.
C30_Witness ==
    /\ pc = "send" /\ "optimize" \in failures
    /\ calls[Len(calls)].files = <<YtAudio, YtWebm>>
    /\ current_status_text = <<SENDING>>

\* ------------------------------------------------- C31
\* The files that the fetches of the run returned.
FetchedFiles == produced \cap UNION {Range(l) : l \in FetchedFileLists}
\* The input and the output of the optimizer's call.
OptimizerInput == calls[CHOOSE i \in OptimizerCalls : TRUE].files[1]
OptimizerOutput == calls[CHOOSE i \in OptimizerCalls : TRUE].files[2]

\* C31: after the optimizer succeeded the file set is the optimized video
\* alone and the delivery is given that set; the original video and the other
\* fetched files are not delivered, and the list handed to
\* _cleanup_media_files holds them all, the optimized video too.
C31_OnlyOptimizedVideoDelivered ==
    OptimizerSucceeded =>
        /\ download_result[1].media_files = <<OptimizerOutput>>
        /\ OptimizerOutput # OptimizerInput
        /\ OptimizerOutput \notin FetchedFiles
        /\ \A i \in DeliveryCalls :
              /\ calls[i].files = <<OptimizerOutput>>
              /\ Range(calls[i].files) \cap FetchedFiles = {}
        /\ \A i \in Calls("_cleanup_media_files") :
              FetchedFiles \cup {OptimizerInput, OptimizerOutput} \subseteq Range(calls[i].files)
\* The optimizer succeeded on the video of a fetched set that also held an
\* image and an audio file; the run delivered, and all four paths went to
\* the cleanup.
C31_Witness ==
    /\ Delivered /\ OptimizerSucceeded
    /\ OptimizerInput = GdlVideo
    /\ DeliveredFiles = {<<ProcessedCandidate(GdlVideo, 0)>>}
    /\ \E i \in Calls("_cleanup_media_files") :
          {GdlImage(1), GdlVideo, GdlAudio, ProcessedCandidate(GdlVideo, 0)}
              \subseteq Range(calls[i].files)

\* ------------------------------------------------- C33
FetchCalls == Calls("download_media_yt_dlp") \cup Calls("download_gallery_dl")
\* The initial send returned None, or raised.
NoMessageReturned == Returned /\ ~StatusCreated /\ "send_initial" \notin raised
InitialSendRaised == Returned /\ "send_initial" \in raised

\* C33: no downloader is called unless the initial send returned the status
\* message.  When it returned None the run ends with no fetch, no animation
\* task, no delivery and no failure text; when it raised the run ends Failed
\* with no fetch and the generic failure text sent as a new message; either
\* way _cleanup_media_files is called, with an empty list.
C33_NoFetchWithoutStatusMessage ==
    /\ FetchCalls # {} => StatusCreated
    /\ ~StatusCreated => tasks = <<>> /\ DeliveryCalls = {} /\ Calls("edit_final") = {}
    /\ NoMessageReturned =>
          /\ calls = <<Call("_cleanup_media_files", <<>>, <<>>)>>
          /\ final_status_message = <<>> /\ ~media_sent
    /\ InitialSendRaised =>
          /\ Failed /\ final_status_message = UnexpectedError
          /\ calls = <<Call("send_message", <<>>, StatusUpdateText(UnexpectedError)),
                       Call("_cleanup_media_files", <<>>, <<>>)>>
\* The initial send raised and the run has returned.
C33_Witness == InitialSendRaised /\ Len(calls) = 2 /\ ~StatusCreated
\* The initial send returned None and the run has returned.
C33_WitnessNone == NoMessageReturned /\ Len(calls) = 1

\* ===================================================================
\* src/utils/user_stats.py: the usage counters.  asyncio.Lock.acquire returns
\* without suspending while the lock is free, and no holder of _stats_lock
\* awaits before it releases, so each call runs from its first line to its
\* return in one step; the calls of different tasks come in any order.
\* ===================================================================
SAVE_INTERVAL == 60
\* The increment_user_count calls followed.
MaxIncrements == 2
\* The clock is followed until one interval has passed since load_stats.
MaxClock == SAVE_INTERVAL

\* Lines 21-33: the values of UsageContext.
ContextKeys ==
    {"private_link", "group_link", "reddit_command_private", "reddit_command_group",
     "stats_command", "other_command", "story_command", "other"}
\* Lines 39-40.
default_totals == [key \in ContextKeys \cup {"all_calls"} |-> 0]

\* A dict is a function of its keys; d.get(key, default) and d[key] = value.
EmptyDict == [key \in {} |-> 0]
Get(d, key, default) == IF key \in DOMAIN d THEN d[key] ELSE default
Set(d, key, value) == (key :> value) @@ d
RECURSIVE SumOver(_, _)
SumOver(d, keys) ==
    IF keys = {} THEN 0
    ELSE LET key == CHOOSE k \in keys : TRUE IN d[key] + SumOver(d, keys \ {key})

\* The callers' user ids (0 is falsy), and the contexts they pass: members of
\* UsageContext, a string that is the value of a member, a string that is not.
UserIds == {0, 1, 2}
ContextInputs ==
    {<<"UsageContext", "private_link">>, <<"str", "group_link">>, <<"str", "GROUP_LINK">>}
\* Line 131: str(user_id).
user_id_str(user_id) == ToString(user_id)
\* Lines 123-132: a member's value; UsageContext(str(context)) of a string
\* that is a member's value; OTHER after the ValueError of any other string.
context_key(context) ==
    IF context[1] = "UsageContext" THEN context[2]
    ELSE IF context[2] \in ContextKeys THEN context[2]
    ELSE "other"

\* An update that counts the call and leaves the context counters alone.
IncrementedWithoutContext(user_data, key, now) ==
    Set(Set(user_data, "call_count", Get(user_data, "call_count", 0) + 1),
        "contexts", Get(user_data, "contexts", [k \in ContextKeys |-> 0]))
\* Lines 138-148: user_data after the call is counted.
Incremented(user_data, key, now) ==
    LET counted == Set(user_data, "call_count", Get(user_data, "call_count", 0) + 1)
        seen == Set(counted, "last_seen_iso", now)
        first == IF "first_seen_iso" \in DOMAIN seen THEN seen
                 ELSE Set(seen, "first_seen_iso", seen["last_seen_iso"])
        initialised == IF "contexts" \in DOMAIN first THEN first
                       ELSE Set(first, "contexts", [k \in ContextKeys |-> 0])
        contexts == initialised["contexts"]
    IN Set(initialised, "contexts", Set(contexts, key, Get(contexts, key, 0) + 1))

\* Lines 90-98: the totals save_stats stores before it writes.
RecalculatedTotals(users_data) ==
    [key \in ContextKeys \cup {"all_calls"} |->
        IF key = "all_calls"
        THEN SumOver([u \in DOMAIN users_data |-> Get(users_data[u], "call_count", 0)],
                     DOMAIN users_data)
        ELSE SumOver([u \in DOMAIN users_data |->
                         Get(Get(users_data[u], "contexts", EmptyDict), key, 0)],
                     DOMAIN users_data)]
\* Lines 187-192: the totals get_totals returns.
current_totals(users_data) ==
    [key \in ContextKeys \cup {"all_calls"} |->
        IF key = "all_calls"
        THEN SumOver([u \in DOMAIN users_data |-> Get(users_data[u], "call_count", 0)],
                     DOMAIN users_data)
        ELSE SumOver([u \in DOMAIN users_data |->
                         Get(Get(users_data[u], "contexts", EmptyDict), key, 0)],
                     DOMAIN users_data)]

\* increment_user_count(user_id, context), lines 115-153.
increment_user_count(user_id, context) ==
    /\ SumOver(increments, UserIds) < MaxIncrements
    /\ increments' = [increments EXCEPT ![user_id] = @ + 1]
    /\ IF user_id = 0
       THEN UNCHANGED <<stats_data, save_tasks>>
       ELSE LET users == stats_data.users
                user_data == Get(users, user_id_str(user_id), EmptyDict)
            IN /\ stats_data' =
                     [stats_data EXCEPT !.users =
                         Set(users, user_id_str(user_id),
                             Incremented(user_data, context_key(context), clock))]
               /\ save_tasks' = save_tasks + 1
    /\ UNCHANGED <<last_save_time, stats_file, clock, totals_read,
                   handler_vars, send_vars, fetch_vars, reddit_vars>>

\* save_stats(force), lines 74-113.  mkdir can raise before anything is
\* changed; the dump or the replace can raise after the totals were stored.
save_stats(force) ==
    LET current_time == clock IN
    IF ~force /\ current_time - last_save_time < SAVE_INTERVAL
    THEN UNCHANGED <<stats_data, stats_file, last_save_time>>
    ELSE \E outcome \in {"mkdir raises", "write raises", "saved"} :
            IF outcome = "mkdir raises"
            THEN UNCHANGED <<stats_data, stats_file, last_save_time>>
            ELSE /\ stats_data' =
                       [stats_data EXCEPT !.totals = RecalculatedTotals(stats_data.users)]
                 /\ IF outcome = "saved"
                    THEN stats_file' = <<stats_data'>> /\ last_save_time' = current_time
                    ELSE UNCHANGED <<stats_file, last_save_time>>

\* Line 153: a task created by increment_user_count runs save_stats().
SaveTask ==
    /\ save_tasks > 0
    /\ save_tasks' = save_tasks - 1
    /\ save_stats(FALSE)
    /\ UNCHANGED <<clock, increments, totals_read, handler_vars, send_vars, fetch_vars, reddit_vars>>
\* bot.py 129: save_stats(force=True).
SaveForced ==
    /\ save_stats(TRUE)
    /\ UNCHANGED <<clock, save_tasks, increments, totals_read,
                   handler_vars, send_vars, fetch_vars, reddit_vars>>
\* get_totals(), lines 184-192.
get_totals ==
    /\ totals_read' = <<current_totals(stats_data.users)>>
    /\ UNCHANGED <<stats_data, last_save_time, stats_file, clock, save_tasks, increments,
                   handler_vars, send_vars, fetch_vars, reddit_vars>>
\* Time passes.
Tick ==
    /\ clock < MaxClock
    /\ clock' = clock + SAVE_INTERVAL
    /\ UNCHANGED <<stats_data, last_save_time, stats_file, save_tasks, increments,
                   totals_read, handler_vars, send_vars, fetch_vars, reddit_vars>>

\* load_stats, lines 35-71, found no file: fresh statistics.
StatsInit ==
    /\ NoHandler
    /\ NoSend
    /\ NoFetch
    /\ NoReddit
    /\ stats_data = [users |-> EmptyDict, totals |-> default_totals]
    /\ last_save_time = 0
    /\ stats_file = <<>>
    /\ clock = 0
    /\ save_tasks = 0
    /\ increments = [u \in UserIds |-> 0]
    /\ totals_read = <<>>
StatsNext ==
    \/ \E user_id \in UserIds, context \in ContextInputs :
          increment_user_count(user_id, context)
    \/ SaveTask
    \/ SaveForced
    \/ get_totals
    \/ Tick
StatsSpec == StatsInit /\ [][StatsNext]_vars

\* ------------------------------------------------- C34
Users == UserIds \ {0}
UserData(u) == Get(stats_data.users, user_id_str(u), EmptyDict)
call_count(u) == Get(UserData(u), "call_count", 0)
ContextSum(u) ==
    LET contexts == Get(UserData(u), "contexts", EmptyDict)
    IN SumOver(contexts, DOMAIN contexts)
CountersExact ==
    /\ DOMAIN stats_data.users \subseteq {user_id_str(u) : u \in Users}
    /\ \A u \in Users : call_count(u) = increments[u] /\ call_count(u) = ContextSum(u)
TotalsExact ==
    /\ totals_read[1]["all_calls"] = SumOver([u \in Users |-> call_count(u)], Users)
    /\ totals_read[1]["all_calls"] = SumOver(increments, Users)

\* C34: from fresh statistics and in any order of increment_user_count,
\* save_stats and get_totals calls, each user's call_count is the number of
\* increment_user_count calls that returned for that user and is the sum of
\* that user's context counters, and what get_totals returns has all_calls
\* equal to the sum of the users' call_count at that moment.
C34_CountersAdditive ==
    /\ [](stats_data.users # <<>> => CountersExact)
    /\ [][totals_read' # totals_read => TotalsExact']_vars
\* Two users were counted, in different contexts, the save tasks have run,
\* one of them has written the file, and get_totals has reported both calls.
C34_Witness ==
    /\ stats_data.users # <<>>
    /\ increments[1] = 1 /\ increments[2] = 1
    /\ call_count(1) = 1 /\ call_count(2) = 1
    /\ UserData(1)["contexts"]["private_link"] = 1 /\ UserData(2)["contexts"]["other"] = 1
    /\ stats_file # <<>> /\ save_tasks = 0
    /\ totals_read # <<>> /\ totals_read[1]["all_calls"] = 2
\* One user was counted twice, in two contexts.
C34_WitnessTwoContexts ==
    /\ stats_data.users # <<>>
    /\ increments[1] = 2 /\ call_count(1) = 2
    /\ UserData(1)["contexts"]["group_link"] = 1 /\ UserData(1)["contexts"]["other"] = 1
    /\ totals_read # <<>> /\ totals_read[1]["all_calls"] = 2

\* ===================================================================
\* src/handlers/command_handlers.py: reddit_command from line 446 on, the
\* arguments parsed.  A text is the sequence of its parts.
\* ===================================================================
SEARCHING == <<"Searching", " r/sub (hot, Type: both)... Please wait.">>
FoundText(type) == <<"Found", " ", type, ". Downloading...">>
PostErrorText == <<CROSS, "No suitable media found.">>
TooLargeText(type) == <<CROSS, "Download failed: The ", type, " is too large (>50.0MB).">>
IMAGE_TOO_LARGE == <<CROSS, "Download failed: The image is too large for Telegram.">>
IMAGE_OVERSHOOT == <<CROSS, "Download failed: The image is too large.">>
HTTP_FAILED == <<CROSS, "Download failed (HTTP 404).", " Media not found?">>
NETWORK_FAILED == <<CROSS, "Download failed (Network Error).">>
HTTPX_UNEXPECTED == <<CROSS, "Download failed (Unexpected Error).">>
DOWNLOAD_FAILED == <<CROSS, "Failed to download media content after search.">>
PROCESSING_VIDEO == <<"Processing video...">>
PREPARING_FAILED == <<CROSS, "Error preparing file for sending.">>
UploadingText(type) == <<"Uploading ", type, "...">>
FILE_DISAPPEARED == <<CROSS, "Error: Media file disappeared before sending.">>
SendFailedText(type) == <<CROSS, "Failed to send ", type, " (Telegram Error).">>
FORBIDDEN == <<CROSS, "Failed to send: Bot lacks permission in this chat.">>
ApiErrorText(type) == <<CROSS, "Failed to send ", type, " (Telegram API Error).">>
REDDIT_UNEXPECTED == <<WARN, "An unexpected error occurred.">>
\* str.startswith of a text whose first part is a word.
StartsWith(text, prefix) == text # <<>> /\ text[1] = prefix

\* Lines 507-513 and 561: the name of the downloaded file, count 0 for the
\* name without a counter; lines 602-607: the name of the processed file.
RedditCandidate(type, count) == <<"reddit_sub_", type, "_id", count>>
RedditTempFile == <<"reddit_sub_img_", "tmp8x">>
ProcCandidate(original, count) == <<"reddit_sub_proc_", original, count, ".mp4">>
RedditPath(type, existing) ==
    RedditCandidate(type,
        FirstFree({k \in 0..Cardinality(existing) : RedditCandidate(type, k) \in existing}))
ProcPath(original, existing) ==
    ProcCandidate(original,
        FirstFree({k \in 0..Cardinality(existing) : ProcCandidate(original, k) \in existing}))

RedditCall(op, files) == [op |-> op, files |-> files]
\* The finally block, lines 691-694, up to its await.
RedditFinally(original, processed, log) ==
    /\ reddit_pc' = "_cleanup_media_files"
    /\ reddit_edit' = <<>>
    /\ reddit_calls' = Append(log, RedditCall("_cleanup_media_files", <<original, processed>>))
\* An edit_text is awaited; then names the code that follows its return.
RedditEdit(text, then) ==
    /\ reddit_pc' = "edit_text"
    /\ reddit_edit' = [text |-> text, then |-> then]
    /\ UNCHANGED reddit_calls
\* Lines 684-690: an exception reached the handler of reddit_command.
RedditExcept == RedditEdit(REDDIT_UNEXPECTED, "logged")

\* Lines 619-629 up to their await.
BeforeSending(path, existing, type) ==
    IF path = <<>> \/ path[1] \notin existing
    THEN RedditEdit(PREPARING_FAILED, "unlink")
    ELSE RedditEdit(UploadingText(type), "send")
\* Lines 598-601 and 619-629 up to their await.
BeforeProcessing(original, existing, type, ffmpeg) ==
    /\ path_to_send' = original
    /\ IF type = "video" /\ ffmpeg
       THEN RedditEdit(PROCESSING_VIDEO, "process")
       ELSE BeforeSending(original, existing, type)
\* Lines 593-601 up to their await.  processing_msg is the Message
\* send_message returned: its text stays the one of line 446.  Nothing
\* returns after line 596: line 598 follows the edit.
AfterDownloads(success, original, existing, type, ffmpeg) ==
    IF /\ ~success \/ original = <<>> \/ original[1] \notin existing
       /\ StartsWith(SEARCHING, "Searching") \/ StartsWith(SEARCHING, "Found")
    THEN RedditEdit(DOWNLOAD_FAILED, "failed") /\ UNCHANGED path_to_send
    ELSE BeforeProcessing(original, existing, type, ffmpeg)
\* Lines 539-541: the httpx fallback is for images yt-dlp did not fetch.
AfterYtDlp(success, original, existing, type, ffmpeg) ==
    IF ~success /\ type = "image"
    THEN /\ reddit_pc' = "httpx"
         /\ UNCHANGED <<reddit_edit, reddit_calls, path_to_send>>
    ELSE AfterDownloads(success, original, existing, type, ffmpeg)

\* Line 446 returns.  An exception leaves reddit_command: the try begins at
\* line 463.
RedditSendMessageReturn ==
    /\ reddit_pc = "send_message"
    /\ \E ok \in BOOLEAN :
          /\ reddit_pc' = IF ok THEN "increment_user_count" ELSE "raised"
          /\ reddit_status' = IF ok THEN <<SEARCHING>> ELSE reddit_status
    /\ UNCHANGED <<media_type, original_temp_media_path, processed_temp_media_path,
                   path_to_send, download_success, reddit_edit, reddit_calls, reddit_disk,
                   handler_vars, send_vars, fetch_vars, stats_vars>>
\* Line 461 returns.
RedditIncrementReturn ==
    /\ reddit_pc = "increment_user_count"
    /\ reddit_pc' = "fetch_random_reddit_media"
    /\ UNCHANGED <<media_type, original_temp_media_path, processed_temp_media_path,
                   path_to_send, download_success, reddit_edit, reddit_status, reddit_calls,
                   reddit_disk, handler_vars, send_vars, fetch_vars, stats_vars>>
\* Lines 464-473: fetch_random_reddit_media returns a post, or an error, or raises.
RedditFetchReturn ==
    /\ reddit_pc = "fetch_random_reddit_media"
    /\ \E outcome \in {"image", "video", "error", "raise"} :
          /\ media_type' = IF outcome \in {"image", "video"} THEN outcome ELSE media_type
          /\ CASE outcome = "raise" -> RedditExcept
               [] outcome = "error" -> RedditEdit(PostErrorText, "return")
               [] OTHER -> RedditEdit(FoundText(outcome), "download")
    /\ UNCHANGED <<original_temp_media_path, processed_temp_media_path, path_to_send,
                   download_success, reddit_status, reddit_disk,
                   handler_vars, send_vars, fetch_vars, stats_vars>>

\* Lines 477-536: what the yt-dlp attempt can come to.
YtDlpAttempts ==
    {"moved", "move raises", "no info", "no valid file", "max_filesize",
     "DownloadError", "Exception"}
\* Line 495 returns and lines 497-541 run up to their await.
RedditYtDlpReturn ==
    /\ reddit_pc = "extract_info"
    /\ \E outcome \in YtDlpAttempts :
          LET path == RedditPath(media_type, reddit_disk)
              original == IF outcome \in {"moved", "move raises"}
                          THEN <<path>> ELSE original_temp_media_path
              existing == IF outcome = "moved" THEN reddit_disk \cup {path} ELSE reddit_disk
              success == outcome = "moved"
          IN /\ original_temp_media_path' = original
             /\ reddit_disk' = existing
             /\ download_success' = success
             /\ IF outcome = "max_filesize"
                THEN RedditEdit(TooLargeText(media_type), "return") /\ UNCHANGED path_to_send
                ELSE AfterYtDlp(success, original, existing, media_type, FFMPEG_AVAILABLE)
    /\ UNCHANGED <<media_type, processed_temp_media_path, reddit_status,
                   handler_vars, send_vars, fetch_vars, stats_vars>>

\* Lines 541-591: what the httpx attempt can come to, and the text of each
\* failure.
HttpxFailures ==
    [content_length |-> IMAGE_TOO_LARGE, overshoot |-> IMAGE_OVERSHOOT,
     HTTPStatusError |-> HTTP_FAILED, RequestError |-> NETWORK_FAILED,
     Exception |-> HTTPX_UNEXPECTED]
\* The httpx download ends and lines 574-601 run up to their await.  The
\* awaits of the download are taken together; the file of line 561 exists
\* from its creation and is unlinked at line 570 only.
RedditHttpxReturn ==
    /\ reddit_pc = "httpx"
    /\ \E outcome \in DOMAIN HttpxFailures \cup {"downloaded"} :
          IF outcome = "downloaded"
          THEN /\ original_temp_media_path' = <<RedditTempFile>>
               /\ reddit_disk' = reddit_disk \cup {RedditTempFile}
               /\ download_success' = TRUE
               /\ AfterDownloads(TRUE, <<RedditTempFile>>, reddit_disk \cup {RedditTempFile},
                                 media_type, FFMPEG_AVAILABLE)
          ELSE /\ RedditEdit(HttpxFailures[outcome], "return")
               /\ UNCHANGED <<original_temp_media_path, reddit_disk, download_success,
                              path_to_send>>
    /\ UNCHANGED <<media_type, processed_temp_media_path, reddit_status,
                   handler_vars, send_vars, fetch_vars, stats_vars>>

\* An edit_text returns, or raises: the text is shown and the code named by
\* reddit_edit.then runs up to its await, or the exception reaches line 684
\* (line 689 when the edit is the one of line 688).
RedditEditReturn ==
    /\ reddit_pc = "edit_text"
    /\ \E ok \in BOOLEAN :
          LET then == reddit_edit.then
              original == original_temp_media_path
          IN /\ reddit_status' =
                   IF ok THEN Append(reddit_status, reddit_edit.text) ELSE reddit_status
             /\ CASE then = "logged" ->
                       /\ RedditFinally(original, processed_temp_media_path, reddit_calls)
                       /\ UNCHANGED <<processed_temp_media_path, path_to_send, reddit_disk>>
                  [] then # "logged" /\ ~ok ->
                       /\ RedditExcept
                       /\ UNCHANGED <<processed_temp_media_path, path_to_send, reddit_disk>>
                  [] then = "return" /\ ok ->
                       /\ RedditFinally(original, processed_temp_media_path, reddit_calls)
                       /\ UNCHANGED <<processed_temp_media_path, path_to_send, reddit_disk>>
                  [] then = "download" /\ ok ->
                       /\ reddit_pc' = "extract_info"
                       /\ reddit_edit' = <<>>
                       /\ UNCHANGED <<processed_temp_media_path, path_to_send, reddit_disk,
                                      reddit_calls>>
                  [] then = "failed" /\ ok ->
                       /\ BeforeProcessing(original, reddit_disk, media_type,
                                           FFMPEG_AVAILABLE)
                       /\ UNCHANGED <<processed_temp_media_path, reddit_disk>>
                  [] then = "process" /\ ok ->
                       \* Lines 602-610: None has no stem.
                       IF original = <<>>
                       THEN /\ RedditExcept
                            /\ UNCHANGED <<processed_temp_media_path, path_to_send,
                                           reddit_disk>>
                       ELSE LET processed == ProcPath(original[1], reddit_disk)
                            IN /\ processed_temp_media_path' = <<processed>>
                               /\ reddit_pc' = "process_video_for_streaming"
                               /\ reddit_edit' = <<>>
                               /\ reddit_calls' =
                                     Append(reddit_calls,
                                            RedditCall("process_video_for_streaming",
                                                       <<original, <<processed>> >>))
                               /\ UNCHANGED <<path_to_send, reddit_disk>>
                  [] then = "unlink" /\ ok ->
                       \* Lines 622-626.
                       /\ reddit_disk' =
                             reddit_disk \ {p \in Range(original \o processed_temp_media_path) :
                                               <<p>> # path_to_send}
                       /\ RedditFinally(original, processed_temp_media_path, reddit_calls)
                       /\ UNCHANGED <<processed_temp_media_path, path_to_send>>
                  [] then = "send" /\ ok ->
                       /\ reddit_pc' = "send_method"
                       /\ reddit_edit' = <<>>
                       /\ reddit_calls' =
                             Append(reddit_calls,
                                    RedditCall(IF media_type = "image" THEN "send_photo"
                                               ELSE "send_video", <<path_to_send>>))
                       /\ UNCHANGED <<processed_temp_media_path, path_to_send, reddit_disk>>
    /\ UNCHANGED <<media_type, original_temp_media_path, download_success,
                   handler_vars, send_vars, fetch_vars, stats_vars>>

\* media_processing.py 284-331: what process_video_for_streaming can come to
\* for this input and this flag.
StreamingOutcomes(input) ==
    IF ~FFMPEG_AVAILABLE \/ input \notin reddit_disk THEN {"refused"}
    ELSE {"processed", "failed", "ffmpeg missing"}
\* Line 610 returns and lines 611-629 run up to their await.
RedditProcessReturn ==
    /\ reddit_pc = "process_video_for_streaming"
    /\ \E outcome \in StreamingOutcomes(original_temp_media_path[1]) :
          LET processed == processed_temp_media_path
              existing == IF outcome = "processed" THEN reddit_disk \cup Range(processed)
                          ELSE reddit_disk \ Range(processed)
              path == IF outcome = "processed" THEN processed ELSE path_to_send
          IN /\ FFMPEG_AVAILABLE' = (FFMPEG_AVAILABLE /\ outcome # "ffmpeg missing")
             /\ reddit_disk' = existing
             /\ processed_temp_media_path' = IF outcome = "processed" THEN processed ELSE <<>>
             /\ path_to_send' = path
             /\ BeforeSending(path, existing, media_type)
    /\ UNCHANGED <<media_type, original_temp_media_path, download_success, reddit_status,
                   handler_locals, send_vars, fetch_vars, stats_vars>>

\* Lines 658-682: the texts of the upload failures the handler names.
UploadFailures ==
    [FileNotFoundError |-> FILE_DISAPPEARED, BadRequest |-> SendFailedText(media_type),
     Forbidden |-> FORBIDDEN, TelegramError |-> ApiErrorText(media_type)]
\* Line 659 returns or raises.
RedditSendReturn ==
    /\ reddit_pc = "send_method"
    /\ \E outcome \in DOMAIN UploadFailures \cup {"sent", "Exception"} :
          CASE outcome = "sent" ->
                  /\ reddit_pc' = "delete"
                  /\ UNCHANGED <<reddit_edit, reddit_calls>>
            [] outcome = "Exception" -> RedditExcept
            [] OTHER -> RedditEdit(UploadFailures[outcome], "return")
    /\ UNCHANGED <<media_type, original_temp_media_path, processed_temp_media_path,
                   path_to_send, download_success, reddit_status, reddit_disk,
                   handler_vars, send_vars, fetch_vars, stats_vars>>
\* Lines 661-662: the delete returns, or raises and is suppressed.
RedditDeleteReturn ==
    /\ reddit_pc = "delete"
    /\ RedditFinally(original_temp_media_path, processed_temp_media_path, reddit_calls)
    /\ UNCHANGED <<media_type, original_temp_media_path, processed_temp_media_path,
                   path_to_send, download_success, reddit_status, reddit_disk,
                   handler_vars, send_vars, fetch_vars, stats_vars>>
\* Line 694 returns: the files of the list that exist are removed.
RedditCleanupReturn ==
    /\ reddit_pc = "_cleanup_media_files"
    /\ reddit_pc' = "returned"
    /\ reddit_disk' = reddit_disk \ Range(original_temp_media_path \o processed_temp_media_path)
    /\ UNCHANGED <<media_type, original_temp_media_path, processed_temp_media_path,
                   path_to_send, download_success, reddit_edit, reddit_status, reddit_calls,
                   handler_vars, send_vars, fetch_vars, stats_vars>>

\* reddit_command has parsed its arguments and awaits line 446; the
\* temporary directory may hold files of earlier calls.
RedditInit ==
    /\ NoProcessLink
    /\ FFMPEG_AVAILABLE \in BOOLEAN
    /\ NoSend
    /\ NoFetch
    /\ NoStats
    /\ reddit_pc = "send_message"
    /\ media_type = ""
    /\ original_temp_media_path = <<>>
    /\ processed_temp_media_path = <<>>
    /\ path_to_send = <<>>
    /\ download_success = FALSE
    /\ reddit_edit = <<>>
    /\ reddit_status = <<>>
    /\ reddit_calls = <<>>
    /\ reddit_disk \in {{}, {RedditCandidate("video", 0)},
                        {ProcCandidate(RedditCandidate("video", 0), 0)}}
RedditNext ==
    \/ RedditSendMessageReturn
    \/ RedditIncrementReturn
    \/ RedditFetchReturn
    \/ RedditYtDlpReturn
    \/ RedditHttpxReturn
    \/ RedditEditReturn
    \/ RedditProcessReturn
    \/ RedditSendReturn
    \/ RedditDeleteReturn
    \/ RedditCleanupReturn
RedditSpec == RedditInit /\ [][RedditNext]_vars

\* ------------------------------------------------- C35
RedditReturned == reddit_pc = "returned"
RedditOps(ops) == {i \in 1..Len(reddit_calls) : reddit_calls[i].op \in ops}
\* The download-failure text of line 596 was written to the status message.
DownloadFailureShown == DOWNLOAD_FAILED \in Range(reddit_status)

\* C35: once every download method has failed and the download-failure text
\* is on the status message, reddit_command calls neither
\* process_video_for_streaming nor send_photo or send_video, the last text of
\* the status message is the download-failure text, and _cleanup_media_files
\* is called once.
C35_DownloadFailureIsFinal ==
    (RedditReturned /\ DownloadFailureShown) =>
        /\ RedditOps({"process_video_for_streaming", "send_photo", "send_video"}) = {}
        /\ reddit_status[Len(reddit_status)] = DOWNLOAD_FAILED
        /\ Cardinality(RedditOps({"_cleanup_media_files"})) = 1
\* What the handler keeps of it: no upload, and one cleanup call.
C35_NoUploadOneCleanup ==
    (RedditReturned /\ DownloadFailureShown) =>
        /\ RedditOps({"send_photo", "send_video"}) = {}
        /\ Cardinality(RedditOps({"_cleanup_media_files"})) = 1
\* The download-failure text was written and the call has returned.
C35_Witness == RedditReturned /\ DownloadFailureShown
\* The file yt-dlp fetched could not be moved, and the transcode was called
\* with its path after the download-failure text.
C35_WitnessTranscode ==
    /\ RedditReturned /\ DownloadFailureShown
    /\ RedditOps({"process_video_for_streaming"}) # {}

\* ------------------------------------------------- C32
\* The fetch, probe, compose, optimize and delivery calls of the run, in
\* order, each with its files.
PipelineOps ==
    {"download_media_yt_dlp", "download_gallery_dl", "get_audio_duration",
     "create_slideshow_video", "process_video_for_telegram", "send_downloaded_media"}
Step(op, files) == [op |-> op, files |-> files]
PipelineSteps ==
    LET IsStep(c) == c.op \in PipelineOps
        made == SelectSeq(calls, IsStep)
    IN [i \in 1..Len(made) |-> Step(made[i].op, made[i].files)]

\* The run as the collaborators' answers alone determine it: process_link
\* with every status-display operation left out.  r holds the result in hand,
\* the flag, the files on disk, the output path chosen, the steps made, the
\* step awaited, and whether media was sent and a failure text set.
RefStarted(ffmpeg) ==
    [dr |-> <<>>, ffmpeg |-> ffmpeg, disk |-> {}, out |-> <<>>, steps |-> <<>>,
     pending |-> "send_initial", sent |-> FALSE, failed |-> FALSE]
RefEnd(r, sent, failed) == [r EXCEPT !.pending = "end", !.sent = sent, !.failed = failed]
RefCall(r, pending, op, files) ==
    [r EXCEPT !.pending = pending, !.steps = Append(@, Step(op, files))]
\* Lines 180-243.
RefDeliver(r, failed) ==
    IF ~failed /\ r.dr # <<>> /\ r.dr[1].success /\ r.dr[1].media_files # <<>>
    THEN LET files == r.dr[1].media_files
         IN IF r.ffmpeg /\ VideoToProcess(files) # <<>>
            THEN LET video == VideoToProcess(files)[1]
                     out == ProcessedPath(video, r.disk)
                 IN RefCall([r EXCEPT !.out = <<out>>], "optimize",
                            "process_video_for_telegram", <<video, out>>)
            ELSE RefCall(r, "send", "send_downloaded_media", files)
    ELSE RefEnd(r, FALSE, TRUE)
\* The result of a fetch is taken: lines 85-93 and 116-132.
RefFetched(r, result) ==
    [r EXCEPT !.dr = <<result>>, !.disk = @ \cup OnDisk(result)]
\* The output of a transcode is written or not, and the flag kept or cleared.
RefTranscoded(r, outcome) ==
    [r EXCEPT !.disk = IF outcome \in {"ok", "leftover"} THEN @ \cup Range(r.out) ELSE @,
              !.ffmpeg = @ /\ outcome # "not found"]
RefStep(r, answer) ==
    LET outcome == answer.outcome IN
    CASE answer.step = "send_initial" ->
            IF outcome = "message" THEN RefCall(r, "yt_dlp", "download_media_yt_dlp", <<>>)
            ELSE RefEnd(r, FALSE, outcome = "raise")
      [] answer.step = "yt_dlp" ->
            IF outcome[1] = "result"
            THEN RefDeliver(RefFetched(r, outcome[2]),
                            ~outcome[2].success /\ outcome[2].error_message # "")
            ELSE IF outcome[1] = "NonVideoContentError"
            THEN RefCall(r, "gallery", "download_gallery_dl", <<>>)
            ELSE RefEnd(r, FALSE, TRUE)
      [] answer.step = "gallery" ->
            IF outcome[1] = "result"
            THEN LET result == outcome[2]
                     files == result.media_files
                 IN IF /\ result.success
                       /\ r.ffmpeg /\ FFMPEG_CONVERT_SLIDESHOW /\ files # <<>>
                       /\ Images(files) # <<>> /\ Audios(files) # <<>>
                    THEN RefCall(RefFetched(r, result), "probe", "get_audio_duration",
                                 <<Audios(files)[1]>>)
                    ELSE RefDeliver(RefFetched(r, result), ~result.success)
            ELSE RefEnd(r, FALSE, TRUE)
      [] answer.step = "probe" ->
            IF outcome[1] = "result"
            THEN LET files == r.dr[1].media_files
                     probed == [r EXCEPT !.ffmpeg = @ /\ outcome[2].found]
                 IN IF ValidDuration(outcome[2].duration)
                    THEN RefCall([probed EXCEPT
                                     !.out = <<GeneratedPath(Audios(files)[1], r.disk)>>],
                                 "compose", "create_slideshow_video", Images(files))
                    ELSE RefDeliver(probed, FALSE)
            ELSE RefEnd(r, FALSE, TRUE)
      [] answer.step = "compose" ->
            IF outcome = "raise" THEN RefEnd(r, FALSE, TRUE)
            ELSE LET done == RefTranscoded(r, outcome)
                     result == AfterCompose(r.dr[1], outcome = "ok",
                                            r.out[1] \in done.disk, r.out[1])
                 IN RefDeliver([done EXCEPT !.dr = <<result>>], FALSE)
      [] answer.step = "optimize" ->
            IF outcome = "raise" THEN RefEnd(r, FALSE, TRUE)
            ELSE LET done == RefTranscoded(r, outcome)
                     result == AfterOptimize(r.dr[1], outcome = "ok",
                                             r.out[1] \in done.disk, r.out[1])
                 IN RefCall([done EXCEPT !.dr = <<result>>], "send",
                            "send_downloaded_media", result.media_files)
      [] answer.step = "send" ->
            IF outcome[1] = "result" THEN RefEnd(r, outcome[2], ~outcome[2])
            ELSE RefEnd(r, FALSE, TRUE)
RECURSIVE RefRun(_, _)
RefRun(r, answers) ==
    IF answers = <<>> THEN r ELSE RefRun(RefStep(r, Head(answers)), Tail(answers))
Ref == RefRun(RefStarted(outcomes[1].outcome), Tail(outcomes))

\* A phase switch's edit_text has returned.
SwitchEdited == pc = "switch_edit" /\ pc' # pc /\ status' # status

\* C32: the fetch, probe, compose, optimize and delivery calls of a run, the
\* files of each, and whether the run ends with media sent or with a failure
\* text are those the collaborators' answers alone determine, whatever the
\* animation tasks' edits, the waits for them and the phase switches' edits
\* came to; and a phase switch whose edit returns creates a new animation
\* task and makes it the loading task, also when the task before had ended.
C32_DisplayNeverChangesTheRun ==
    /\ [](Returned =>
            /\ Ref.pending = "end"
            /\ PipelineSteps = Ref.steps
            /\ media_sent = Ref.sent
            /\ (final_status_message # <<>>) = Ref.failed)
    /\ [][SwitchEdited =>
            /\ tasks' = Append(tasks, NewTask(current_status_text))
            /\ loading_task' = Len(tasks')
            /\ ~stop_event']_vars
\* A run delivered after the optimizer although a phase switch's edit raised,
\* with a new animation task created at another switch.
C32_Witness ==
    /\ Delivered /\ "switch_edit" \in raised /\ Len(tasks) >= 2
    /\ OptimizerCalls # {}
    /\ PipelineSteps = Ref.steps
\* The first animation task ended on an edit error while the primary fetch
\* was awaited.
C32_WitnessEndedEarly == pc = "yt_dlp" /\ TaskDone(tasks[1])
\* A run of the secondary fetch that failed, in which a phase switch's edit
\* raised.
C32_WitnessFailed ==
    /\ Failed /\ "switch_edit" \in raised /\ "NonVideoContentError" \in raised
    /\ Ref.failed
====
